---- MODULE Spec2Model ----
(***************************************************************************)
(* A model of the TwinGraph execution engine:                              *)
(*   - ComponentExecutor.execute and its retry loop                        *)
(*     (twingraph/orchestration/executor.py),                              *)
(*   - PipelineExecutor.execute (same file),                               *)
(*   - the lineage store written through GraphManager                      *)
(*     (twingraph/graph/graph_manager.py),                                 *)
(*   - WorkflowEngine.execute (twingraph/core/workflow_engine.py) under    *)
(*     the API's run_workflow_async (twingraph/api/main.py),               *)
(*   - execution ids, generate_hash and TwinGraphSerializer                *)
(*     (twingraph/orchestration/robust_utils.py).                          *)
(* One invocation is a sequence of steps; each step is one action.  The    *)
(* user function, the clock and the graph endpoint are the environment:    *)
(* their outcomes are chosen with \E.                                      *)
(***************************************************************************)
EXTENDS Integers, Sequences, FiniteSets, Bags, TLC

(***************************************************************************)
(* Bounds of the model.                                                    *)
(***************************************************************************)
MaxCalls == 2        \* component invocations per behaviour
MaxClock == 2        \* distinct readings of time.time()
MaxRetries == 2      \* largest max_retries that is tried
MaxParents == 2      \* longest parent_hash list that is tried
MaxPipelines == 2    \* pipeline executions per behaviour
MaxThreads == 2       \* threads that call the execution monitor
MaxMonitorCalls == 3  \* calls of record_execution over all threads

(***************************************************************************)
(* Program constants.                                                      *)
(***************************************************************************)
MaxBackoff == 30     \* min(2 ** attempt, 30)

NoneVal == "None"

Min(a, b) == IF a < b THEN a ELSE b

Threads == 1..MaxThreads

VARIABLES
    \* ---- environment and lineage store -------------------------------
    now,                   \* last reading of time.time()
    vertices,              \* set of [id, label, by, props]
    edges,                 \* bag of <<from vertex id, to vertex id>>, label DEPENDS_ON
    nextVid,               \* id the store gives to the next vertex
    pools,                 \* owners of the connection pools opened so far
    \* ---- ComponentExecutor: the invocation in flight -----------------
    pc,                    \* position inside ComponentExecutor.execute
    ncalls,                \* number of the invocation (0 before the first)
    metadata,              \* ComponentMetadata: name, auto_retry, max_retries
    additional_attributes, \* decorator's additional_attributes
    args,                  \* positional arguments
    kwargs,                \* keyword arguments (parent_hash stripped once extracted)
    context,               \* execution context: execution_id, parent_hashes, inputs
    attempt,               \* loop variable of _execute_with_retry
    result,                \* value returned by the user function
    exc,                   \* exception in flight / raised to the caller
    handle,                \* value returned to the caller
    \* ---- observations of the invocation in flight --------------------
    given,                 \* the keyword arguments as the caller wrote them
    passed,                \* keyword names handed to the user function
    invocations,           \* how often the user function was invoked
    failures,              \* sequence of the exceptions the function raised
    succeeded,             \* the function returned
    sleeps,                \* the backoff sleeps, in seconds
    recs,                  \* the _record_execution calls: [success, raised]
    log,                   \* the steps in the order they happened
    \* ---- PipelineExecutor: the execution in flight -------------------
    ppc,                   \* position inside PipelineExecutor.execute
    npipes,                \* number of the pipeline execution
    pconfig,               \* PipelineConfig + clear_graph
    pipeline_id,
    presult,               \* value returned by the composition function
    pexc,                  \* exception in flight / raised to the caller
    pret,                  \* value returned to the caller
    plog,                  \* the steps in the order they happened
    \* ---- WorkflowEngine and the API's execution table ----------------
    wpc,                   \* position inside run_workflow_async / execute
    workflow,              \* the Workflow: nodes and edges
    execution_order,       \* result of _topological_sort
    wi,                    \* index of the loop over execution_order
    wcontext,              \* execution_context[execution_id]
    execution,             \* executions_db[execution_id]: status, error
    winputs,               \* the inputs gathered for each node that started
    wlog,                  \* start / run / end / fail of the nodes, in order
    \* ---- hashing (robust_utils.generate_hash, execution ids) ---------
    hcalls,                \* the ids and hashes generated so far
    \* ---- TwinGraphSerializer -----------------------------------------
    spc,                   \* "idle", "serialized", "deserialized" or "decoded"
    svalue,                \* the value handed to serialize
    sencoded,              \* serialize(svalue)
    sdecoded,              \* deserialize(sencoded)
    \* ---- resolve_graph_config (robust_utils.py) ---------------------
    resolved,              \* the calls of resolve_graph_config: arguments and result
    \* ---- GraphManager called directly (graph/graph_manager.py) --------
    gcalls,                \* the direct calls of GraphManager operations and their outcomes
    traversal_source,      \* self._g of the manager that is called directly
    \* ---- ExecutionMonitor.record_execution (core/logging.py) -----------
    metrics,               \* ExecutionMonitor.metrics: the counters
    mpc,                   \* per thread: position inside record_execution
    mphase,                \* per thread: index of the counter being updated
    mtmp,                  \* per thread: the value it loaded
    msuccess,              \* per thread: the argument success
    mcalls,                \* number of record_execution calls made
    \* ---- platform drivers and their artifacts (orchestration/platforms.py)
    dpc,                   \* position inside the execute of the driver
    dcalls,                \* number of the driver invocation
    dplatform,             \* the driver: "docker", "slurm", "ssh" or "kubernetes"
    artifacts,             \* what the drivers created and have not removed: <<kind, invocation>>
    dcleanup,              \* the cleanup_remote setting of the SSH driver
    doutcome,              \* how execute ended: "returned" or the exception raised
    \* ---- retry_with_backoff (orchestration/robust_utils.py)
    bpc,                   \* position inside the wrapper of retry_with_backoff
    bcalls,                \* number of the wrapper invocation
    max_attempts,          \* the max_attempts of the decorator
    battempt,              \* the loop variable attempt
    delay,                 \* the local delay, in tenths of a second
    bsleep,                \* the argument of the last time.sleep, in tenths of a second
    boutcome,              \* how the wrapper ended
    \* ---- AsyncComponent (orchestration/modern_decorators.py)
    apc,                   \* position inside AsyncComponent.__call__; "new" before construction
    acalls,                \* number of the call of the component
    cache_enabled,         \* config.cache_enabled
    cache,                 \* self._cache: cache key -> stored entry
    cache_before,          \* self._cache when the call in flight was entered
    akwargs,               \* the keyword arguments the call in flight was given
    cache_key,             \* the local cache_key, <<>> for None
    child_hash,            \* the local child_hash
    output_dict,           \* the local output_dict
    ainvoked,              \* how often the call in flight invoked self.func
    awritten,              \* the vertices the call in flight wrote
    areturn,               \* what the call in flight returned
    araised                \* the exception the call in flight raised

storeVars == <<now, vertices, edges, nextVid, pools>>
compVars  == <<pc, ncalls, metadata, additional_attributes, args, kwargs,
               context, attempt, result, exc, handle, given, passed,
               invocations, failures, succeeded, sleeps, recs, log>>
pipeVars  == <<ppc, npipes, pconfig, pipeline_id, presult, pexc, pret, plog>>
wfVars    == <<wpc, workflow, execution_order, wi, wcontext, execution,
               winputs, wlog>>
hashVars  == <<hcalls>>
serVars   == <<spc, svalue, sencoded, sdecoded>>
cfgVars == <<resolved>>
gmVars == <<gcalls, traversal_source>>
monVars == <<metrics, mpc, mphase, mtmp, msuccess, mcalls>>
drvVars == <<dpc, dcalls, dplatform, artifacts, dcleanup, doutcome>>
boffVars == <<bpc, bcalls, max_attempts, battempt, delay, bsleep, boutcome>>
asyncVars == <<apc, acalls, cache_enabled, cache, cache_before, akwargs, cache_key, child_hash, output_dict, ainvoked, awritten, areturn, araised>>
\* what a step of one subsystem leaves alone
notCompVars == <<pipeVars, wfVars, hashVars, serVars, cfgVars, gmVars, monVars, drvVars, boffVars, asyncVars>>
notPipeVars == <<compVars, wfVars, hashVars, serVars, cfgVars, gmVars, monVars, drvVars, boffVars, asyncVars>>
notWfVars   == <<storeVars, compVars, pipeVars, hashVars, serVars, cfgVars, gmVars, monVars, drvVars, boffVars, asyncVars>>
notHashVars == <<storeVars, compVars, pipeVars, wfVars, serVars, cfgVars, gmVars, monVars, drvVars, boffVars, asyncVars>>
notSerVars  == <<storeVars, compVars, pipeVars, wfVars, hashVars, cfgVars, gmVars, monVars, drvVars, boffVars, asyncVars>>
notCfgVars == <<storeVars, compVars, pipeVars, wfVars, hashVars, serVars, gmVars, monVars, drvVars, boffVars, asyncVars>>
notGmVars == <<compVars, pipeVars, wfVars, hashVars, serVars, cfgVars, monVars, drvVars, boffVars, asyncVars>>
notMonVars == <<storeVars, compVars, pipeVars, wfVars, hashVars, serVars, cfgVars, gmVars, drvVars, boffVars, asyncVars>>
notDrvVars == <<storeVars, compVars, pipeVars, wfVars, hashVars, serVars, cfgVars, gmVars, monVars, boffVars, asyncVars>>
notBoffVars == <<storeVars, compVars, pipeVars, wfVars, hashVars, serVars, cfgVars, gmVars, monVars, drvVars, asyncVars>>
notAsyncVars == <<storeVars, compVars, pipeVars, wfVars, hashVars, serVars, cfgVars, gmVars, monVars, drvVars, boffVars>>
vars      == <<storeVars, compVars, pipeVars, wfVars, hashVars, serVars, cfgVars, gmVars, monVars, drvVars, boffVars, asyncVars>>

(***************************************************************************)
(* Values.  A hash is the pair <<text, clock>>; sha256(...)[:16] is taken  *)
(* to be injective on the text it digests.                                 *)
(***************************************************************************)
UserHash == <<"custom", 0>>       \* a 'Hash' given in additional_attributes
ForeignHash == <<"parent123", 0>> \* a parent id no invocation produced

NoKwargs == [k \in {} |-> NoneVal]
NoAttributes == [k \in {} |-> NoneVal]

\* the components declared in the program: name and additional_attributes
Components ==
    { [name |-> "add", additional_attributes |-> NoAttributes],
      [name |-> "mul", additional_attributes |-> [Hash |-> UserHash]] }

\* exceptions: type, the attempt that raised it, __cause__,
\* details['component_name'] / details['pipeline_name'] and str(e)
Exc(type, at, cause, name, msg) ==
    [type |-> type, at |-> at, cause |-> cause, name |-> name, msg |-> msg]
NoExc == Exc("none", 0, <<>>, NoneVal, "")
CauseOf(e) == <<e.type, e.at>>

\* what the user function can raise: subclasses of Exception, and
\* cancellation, which derives from BaseException only
ExceptionTypes == {"NetworkError", "ValidationError", "ConfigurationError",
                   "MemoryError"}
BaseExceptionTypes == {"KeyboardInterrupt"}
\* what the user function can return; "object" is not JSON-serializable
ResultKinds == {"namedtuple", "scalar", "object"}

NoContext == [execution_id |-> <<>>, parent_hashes |-> <<>>, inputs |-> NoneVal]
NoMetadata == [name |-> NoneVal, auto_retry |-> FALSE, max_retries |-> 0,
               platform |-> NoneVal, configured |-> FALSE]

\* metadata.platform with metadata.config: "configured" says that the keys
\* the driver insists on are set (docker_image for DOCKER, job_queue and
\* job_definition for BATCH, hostname and username for SSH)
Platform(platform, configured) ==
    [platform |-> platform, configured |-> configured]
LocalPlatform == Platform("local", TRUE)
RemotePlatforms == {"docker", "batch", "ssh"}
PlatformValues ==
    {LocalPlatform} \cup {Platform(p, c) : p \in RemotePlatforms, c \in BOOLEAN}
NoHandle == [outputs |-> NoneVal, hash |-> <<>>, component |-> NoneVal]
NoPConfig == [name |-> NoneVal, clear_graph |-> FALSE, celery_enabled |-> FALSE,
              monitoring_enabled |-> FALSE]
\* a Python value: its kind, an atomic payload (a sequence of strings), the
\* keys or field names, and the items
Py(kind, atom, keys, items) ==
    [kind |-> kind, atom |-> atom, keys |-> keys, items |-> items]
PyNone == Py("None", <<>>, <<>>, <<>>)
\* {} : a Python dict without keys
EmptyDict == [k \in {} |-> NoneVal]

\* no child hash yet, no cache entry or return value yet (AsyncComponent)
NoHash == [parents |-> <<>>, at |-> 0]
NoEntry == [outputs |-> NoneVal, hash |-> NoHash, stamp |-> "none"]
NoWorkflow == [nodes |-> <<>>, edges |-> <<>>]
NoWContext == [nodes |-> EmptyDict, results |-> EmptyDict, status |-> NoneVal]
NoExecution == [status |-> NoneVal, error |-> NoneVal, nodes |-> EmptyDict]


(***************************************************************************)
(* GraphManager: the lineage store.                                        *)
(***************************************************************************)
ComponentVertices == {v \in vertices : v.label = "Component"}
PipelineVertices == {v \in vertices : v.label = "Pipeline"}

\* g.V().has('Hash', h)
has_hash(V, h) == {v \in V : "Hash" \in DOMAIN v.props /\ v.props.Hash = h}

\* GraphManager._add_vertex: one vertex carrying the given properties
add_vertex(V, vid, by, label, properties) ==
    V \cup {[id |-> vid, label |-> label, by |-> by, props |-> properties]}

\* GraphManager._add_edge: an edge from every vertex whose Hash is from_hash
\* to every vertex whose Hash is to_hash
add_edge(V, E, from_hash, to_hash) ==
    E (+) SetToBag({<<p[1].id, p[2].id>> :
                      p \in has_hash(V, from_hash) \X has_hash(V, to_hash)})

\* the edges of the first n parents
RECURSIVE add_edges(_, _, _, _, _)
add_edges(V, E, parent_hashes, to_hash, n) ==
    IF n = 0 THEN E
    ELSE add_edge(V, add_edges(V, E, parent_hashes, to_hash, n - 1),
                  parent_hashes[n], to_hash)

no_required_attributes == {}
required_attributes == {"Name", "ExecutionID", "Hash"}

\* the property g: "if self._g is None: self._connect()".  Every
\* GraphManager opens a pool of its own on first use; disconnect is called
\* nowhere, so a pool stays with its manager.
connect(P, owner) == P \cup {owner}
\* add_component_execution reaches g unless a required attribute is missing
connect_for_component(P, owner, attributes) ==
    IF required_attributes \subseteq DOMAIN attributes
    THEN connect(P, owner) ELSE P

\* GraphManager.add_component_execution.  fault is the graph operation that
\* fails: 0 the vertex write, i the edge of the i-th parent, anything larger
\* none.  No transaction is opened, so what was written before the fault stays.
add_component_execution(V, E, vid, by, attributes, parent_hashes, fault) ==
    IF ~(required_attributes \subseteq DOMAIN attributes)
    THEN [raised |-> TRUE, cause |-> "ValueError", V |-> V, E |-> E]
    ELSE IF fault = 0
    THEN [raised |-> TRUE, cause |-> "GremlinError", V |-> V, E |-> E]
    ELSE LET V1 == add_vertex(V, vid, by, "Component", attributes)
             n == Min(fault - 1, Len(parent_hashes))
             E1 == add_edges(V1, E, parent_hashes, attributes.Hash, n)
         IN  IF fault <= Len(parent_hashes)
             THEN [raised |-> TRUE, cause |-> "GremlinError", V |-> V1, E |-> E1]
             ELSE [raised |-> FALSE, cause |-> NoneVal, V |-> V1, E |-> E1]

\* GraphManager.add_pipeline_node.  fault = 0: the vertex write fails.
add_pipeline_node(V, vid, by, attributes, fault) ==
    IF fault = 0
    THEN [raised |-> TRUE, cause |-> "GremlinError", V |-> V]
    ELSE [raised |-> FALSE, cause |-> NoneVal,
          V |-> add_vertex(V, vid, by, "Pipeline", attributes)]

(***************************************************************************)
(* ComponentExecutor helpers.                                              *)
(***************************************************************************)
\* ComponentExecutor._generate_execution_id: sha256("{time}-{name}")[:16]
generate_execution_id(t, name) == <<name, t>>

\* ComponentExecutor._extract_parent_hashes.  The keyword value is
\* [isstr, v]: a string s is held as v = <<s>>, a list as v itself.
extract_parent_hashes(kw) ==
    LET parent_hash == IF "parent_hash" \in DOMAIN kw
                       THEN kw.parent_hash
                       ELSE [isstr |-> FALSE, v |-> <<>>]
    IN  IF parent_hash.isstr THEN <<parent_hash.v[1]>> ELSE parent_hash.v

\* the keyword arguments, parent_hash among them
keep_parent_hash(kw) == kw
\* kwargs = {k: v for k, v in kwargs.items() if k != 'parent_hash'}
strip_parent_hash(kw) == [k \in DOMAIN kw \ {"parent_hash"} |-> kw[k]]

\* signature.bind(*args, **kwargs) of a one-parameter component
signature_binds(a, kw) == Len(a) = 1 /\ DOMAIN kw = {}

\* ComponentExecutor._process_result
process_result(res, execution_id, name) ==
    [outputs |-> [keys |-> IF res = "namedtuple" THEN "fields"
                           ELSE IF res = "dict" THEN "keys"
                           ELSE "result",
                  value |-> res],
     hash |-> execution_id,
     component |-> name]

\* json.dumps(result) in _record_execution raises TypeError on these
json_serializable(processed) == processed.outputs.value # "object"

\* json.dumps(...): the text stored as a property; its content is not modelled
json_dumps(payload) == "json"

\* the attributes _record_execution hands to the graph manager
record_attributes(md, ctx, payload, success, additional) ==
    additional @@
    [Name |-> md.name, ExecutionID |-> ctx.execution_id, Success |-> success,
     ParentHashes |-> ctx.parent_hashes] @@
    (IF success THEN [Outputs |-> json_dumps(payload)]
     ELSE [Error |-> json_dumps(payload)])

\* range(config.max_retries if config.auto_retry else 1)
retry_range(md) == IF md.auto_retry THEN md.max_retries ELSE 1

\* "except Exception" of _execute_with_retry and of execute
caught_by_everything(type) == TRUE
caught_by_except_Exception(type) == type \notin BaseExceptionTypes

\* "if not config.auto_retry or attempt == config.max_retries - 1: raise"
reraises(md, att) == ~md.auto_retry \/ att = md.max_retries - 1

\* "if not self.config.docker_image", "if not job_queue or not
\* job_definition", "if not hostname or not username": a driver goes on to
\* submit only with its mandatory keys; the local platform has none
driver_accepts(md) == md.platform = "local" \/ md.configured

\* wait_time = min(2 ** attempt, 30)
wait_time(att) == Min(2 ^ att, MaxBackoff)


\* the except block of execute wraps the error:
\* raise ComponentExecutionError(f"Component {name} failed: {e}") from e
component_execution_error(md, e) ==
    Exc("ComponentExecutionError", 0, CauseOf(e), NoneVal, "failed")

\* GraphManager wraps every failure: raise GraphOperationError(..., cause=e)
graph_operation_error(cause) ==
    Exc("GraphOperationError", 0, <<cause, 0>>, NoneVal, "failed")

\* control flow of the try statement of execute around the success record:
\* an exception of the try body enters the except block, otherwise return
after_try_record_swallowing(raised) == "returned"
after_try_record(raised) == IF raised THEN "except" ELSE "returned"

(***************************************************************************)
(* The inputs of an invocation.                                            *)
(***************************************************************************)
RetryValues == 0..MaxRetries
ArgsValues == {<<>>, <<5>>}
KnownHashes ==
    {ForeignHash} \cup {v.props.ExecutionID : v \in ComponentVertices}
                  \cup {v.props.Hash : v \in ComponentVertices}
ParentHashValues ==
    {[isstr |-> TRUE, v |-> <<h>>] : h \in KnownHashes} \cup
    {[isstr |-> FALSE, v |-> seq] :
        seq \in UNION {[1..n -> KnownHashes] : n \in 1..MaxParents}}
KwargsValues == {NoKwargs} \cup {[parent_hash |-> ph] : ph \in ParentHashValues}
ClockValues == now..Min(now + 1, MaxClock)

Init ==
    /\ now = 1
    /\ vertices = {}
    /\ edges = EmptyBag
    /\ nextVid = 1
    /\ pools = {}
    /\ pc = "idle"
    /\ ncalls = 0
    /\ metadata = NoMetadata
    /\ additional_attributes = NoAttributes
    /\ args = <<>>
    /\ kwargs = NoKwargs
    /\ given = NoKwargs
    /\ context = NoContext
    /\ attempt = 0
    /\ result = NoneVal
    /\ exc = NoExc
    /\ handle = NoHandle
    /\ passed = {}
    /\ invocations = 0
    /\ failures = <<>>
    /\ succeeded = FALSE
    /\ sleeps = <<>>
    /\ recs = <<>>
    /\ log = <<>>
    /\ ppc = "idle"
    /\ npipes = 0
    /\ pconfig = NoPConfig
    /\ pipeline_id = <<>>
    /\ presult = NoneVal
    /\ pexc = NoExc
    /\ pret = NoneVal
    /\ plog = <<>>
    /\ wpc = "idle"
    /\ workflow = NoWorkflow
    /\ execution_order = <<>>
    /\ wi = 0
    /\ wcontext = NoWContext
    /\ execution = NoExecution
    /\ winputs = EmptyDict
    /\ wlog = <<>>
    /\ hcalls = <<>>
    /\ spc = "idle"
    /\ svalue = PyNone
    /\ sencoded = PyNone
    /\ sdecoded = PyNone
    /\ resolved = <<>>
    /\ gcalls = <<>>
    /\ traversal_source = NoneVal
    /\ metrics = [total_executions |-> 0, successful_executions |-> 0,
                  failed_executions |-> 0, total_duration |-> 0]
    /\ mpc = [t \in Threads |-> "idle"]
    /\ mphase = [t \in Threads |-> 0]
    /\ mtmp = [t \in Threads |-> 0]
    /\ msuccess = [t \in Threads |-> FALSE]
    /\ mcalls = 0
    /\ dpc = "idle"
    /\ dcalls = 0
    /\ dplatform = NoneVal
    /\ artifacts = {}
    /\ dcleanup = TRUE
    /\ doutcome = NoneVal
    /\ bpc = "idle"
    /\ bcalls = 0
    /\ max_attempts = 0
    /\ battempt = 0
    /\ delay = 0
    /\ bsleep = 0
    /\ boutcome = NoneVal
    /\ apc = "new"
    /\ acalls = 0
    /\ cache_enabled = TRUE
    /\ cache = EmptyDict
    /\ cache_before = EmptyDict
    /\ akwargs = EmptyDict
    /\ cache_key = <<>>
    /\ child_hash = NoHash
    /\ output_dict = NoneVal
    /\ ainvoked = 0
    /\ awritten = {}
    /\ areturn = NoEntry
    /\ araised = NoneVal

(***************************************************************************)
(* ComponentExecutor.execute, step by step.                                *)
(***************************************************************************)
\* execute, lines 72-77: read the clock, derive the execution id, extract
\* the parents and strip parent_hash from kwargs
Execute(c, p, ar, mr, a, kw, t) ==
    /\ pc = "idle"
    /\ ncalls < MaxCalls
    /\ ncalls' = ncalls + 1
    /\ now' = t
    /\ metadata' = [name |-> c.name, auto_retry |-> ar, max_retries |-> mr,
                    platform |-> p.platform, configured |-> p.configured]
    /\ additional_attributes' = c.additional_attributes
    /\ args' = a
    /\ given' = kw
    /\ kwargs' = strip_parent_hash(kw)
    /\ context' = [execution_id |-> generate_execution_id(t, c.name),
                   parent_hashes |-> extract_parent_hashes(kw),
                   inputs |-> NoneVal]
    /\ log' = <<"hash">>
    /\ pc' = "serialize"
    /\ UNCHANGED <<vertices, edges, nextVid, pools, attempt, result, exc, handle,
                   passed, invocations, failures, succeeded, sleeps, recs>>
    /\ UNCHANGED notCompVars

\* execute, lines 80-86: bind and serialize the inputs; a TypeError of
\* signature.bind is raised outside the try statement
SerializeInputs ==
    /\ pc = "serialize"
    /\ IF signature_binds(args, kwargs)
       THEN /\ context' = [context EXCEPT !.inputs = "serialized"]
            /\ log' = Append(log, "serialize")
            /\ pc' = "attempt"
            /\ exc' = exc
       ELSE /\ exc' = Exc("TypeError", 0, <<>>, NoneVal, "failed")
            /\ log' = Append(log, "raise")
            /\ pc' = "raised"
            /\ context' = context
    /\ UNCHANGED <<storeVars, ncalls, metadata, additional_attributes, args,
                   kwargs, attempt, result, handle, passed, invocations,
                   failures, succeeded, sleeps, recs>>
    /\ UNCHANGED given
    /\ UNCHANGED notCompVars

\* _execute_with_retry, line 170: the range is exhausted (it is empty when
\* max_retries <= 0); the method falls off its end and returns None
LoopExhausted ==
    /\ pc = "attempt"
    /\ attempt >= retry_range(metadata)
    /\ result' = NoneVal
    /\ pc' = "process"
    /\ UNCHANGED <<storeVars, ncalls, metadata, additional_attributes, args,
                   kwargs, context, attempt, exc, handle, passed, invocations,
                   failures, succeeded, sleeps, recs, log>>
    /\ UNCHANGED given
    /\ UNCHANGED notCompVars

\* _execute_with_retry, lines 171-179: the function (or the platform driver)
\* is invoked and returns r
InvokeReturns(r) ==
    /\ pc = "attempt"
    /\ attempt < retry_range(metadata)
    /\ driver_accepts(metadata)
    /\ invocations' = invocations + 1
    /\ passed' = passed \cup DOMAIN kwargs
    /\ succeeded' = TRUE
    /\ result' = r
    /\ log' = Append(log, "dispatch")
    /\ pc' = "process"
    /\ UNCHANGED <<storeVars, ncalls, metadata, additional_attributes, args,
                   kwargs, context, attempt, exc, handle, failures, sleeps,
                   recs>>
    /\ UNCHANGED given
    /\ UNCHANGED notCompVars

\* _execute_with_retry, lines 171-182: the function is invoked and raises
InvokeRaises(ty) ==
    /\ pc = "attempt"
    /\ attempt < retry_range(metadata)
    /\ driver_accepts(metadata)
    /\ invocations' = invocations + 1
    /\ passed' = passed \cup DOMAIN kwargs
    /\ LET e == Exc(ty, attempt + 1, <<>>, NoneVal, "failed")
       IN  /\ failures' = Append(failures, e)
           /\ exc' = e
           /\ IF ~caught_by_except_Exception(ty)
              THEN /\ pc' = "raised"
                   /\ log' = log \o <<"dispatch", "raise">>
              ELSE /\ pc' = IF reraises(metadata, attempt)
                            THEN "except" ELSE "backoff"
                   /\ log' = Append(log, "dispatch")
    /\ UNCHANGED <<storeVars, ncalls, metadata, additional_attributes, args,
                   kwargs, context, attempt, result, handle, succeeded,
                   sleeps, recs>>
    /\ UNCHANGED given
    /\ UNCHANGED notCompVars

\* _execute_with_retry, lines 177-182, with DockerExecutor.execute,
\* BatchExecutor.execute and SSHExecutor.execute: the driver finds a
\* mandatory key missing and raises PlatformExecutionError before it submits
\* anything; the except clause of the loop treats it as any other exception
PlatformRejects ==
    /\ pc = "attempt"
    /\ attempt < retry_range(metadata)
    /\ ~driver_accepts(metadata)
    /\ LET e == Exc("PlatformExecutionError", attempt + 1, <<>>, NoneVal,
                    "failed")
       IN  /\ failures' = Append(failures, e)
           /\ exc' = e
           /\ pc' = IF reraises(metadata, attempt)
                    THEN "except" ELSE "backoff"
    /\ UNCHANGED <<storeVars, ncalls, metadata, additional_attributes, args,
                   kwargs, context, attempt, result, handle, passed,
                   invocations, succeeded, sleeps, recs, log>>
    /\ UNCHANGED given
    /\ UNCHANGED notCompVars

\* _execute_with_retry, lines 184-196: sleep, then the next iteration
Backoff ==
    /\ pc = "backoff"
    /\ sleeps' = Append(sleeps, wait_time(attempt))
    /\ attempt' = attempt + 1
    /\ exc' = NoExc
    /\ pc' = "attempt"
    /\ UNCHANGED <<storeVars, ncalls, metadata, additional_attributes, args,
                   kwargs, context, result, handle, passed, invocations,
                   failures, succeeded, recs, log>>
    /\ UNCHANGED given
    /\ UNCHANGED notCompVars

\* execute, lines 93-121: project the result, record it, return the handle
RecordSuccess(fault) ==
    /\ pc = "process"
    /\ LET processed == process_result(result, context.execution_id,
                                       metadata.name)
           attrs == record_attributes(metadata, context, processed, TRUE,
                                      additional_attributes)
           w == add_component_execution(vertices, edges, nextVid, ncalls,
                                        attrs, context.parent_hashes, fault)
       IN  IF ~json_serializable(processed)
           THEN /\ recs' = Append(recs, [success |-> TRUE, raised |-> TRUE,
                                         graph |-> FALSE])
                /\ exc' = Exc("TypeError", 0, <<>>, NoneVal, "failed")
                /\ pc' = after_try_record(TRUE)
                /\ log' = Append(log, "record")
                /\ UNCHANGED <<vertices, edges, nextVid, pools, handle>>
           ELSE /\ recs' = Append(recs, [success |-> TRUE, raised |-> w.raised,
                                         graph |-> w.raised])
                /\ vertices' = w.V
                /\ pools' = connect_for_component(pools,
                               <<"component", ncalls>>, attrs)
                /\ edges' = w.E
                /\ nextVid' = IF w.V = vertices THEN nextVid ELSE nextVid + 1
                /\ pc' = after_try_record(w.raised)
                /\ IF pc' = "returned"
                   THEN /\ handle' = processed
                        /\ log' = log \o <<"record", "return">>
                        /\ exc' = exc
                   ELSE /\ handle' = handle
                        /\ log' = Append(log, "record")
                        /\ exc' = IF w.raised THEN graph_operation_error(w.cause)
                                  ELSE exc
    /\ UNCHANGED <<now, ncalls, metadata, additional_attributes, args, kwargs,
                   context, attempt, result, passed, invocations, failures,
                   succeeded, sleeps>>
    /\ UNCHANGED given
    /\ UNCHANGED notCompVars

\* execute, lines 123-158: record the failure, then raise
RecordFailure(fault) ==
    /\ pc = "except"
    /\ LET error_info == [error_type |-> exc.type]
           attrs == record_attributes(metadata, context, error_info, FALSE,
                                      additional_attributes)
           w == add_component_execution(vertices, edges, nextVid, ncalls,
                                        attrs, context.parent_hashes, fault)
       IN  /\ recs' = Append(recs, [success |-> FALSE, raised |-> w.raised,
                                    graph |-> w.raised])
           /\ vertices' = w.V
           /\ pools' = connect_for_component(pools, <<"component", ncalls>>,
                                           attrs)
           /\ edges' = w.E
           /\ nextVid' = IF w.V = vertices THEN nextVid ELSE nextVid + 1
           /\ exc' = IF w.raised THEN graph_operation_error(w.cause)
                     ELSE component_execution_error(metadata, exc)
    /\ log' = log \o <<"record", "raise">>
    /\ pc' = "raised"
    /\ UNCHANGED <<now, ncalls, metadata, additional_attributes, args, kwargs,
                   context, attempt, result, handle, passed, invocations,
                   failures, succeeded, sleeps>>
    /\ UNCHANGED given
    /\ UNCHANGED notCompVars

\* the caller has the handle or the error; the executor is dropped
Finish ==
    /\ pc \in {"returned", "raised"}
    /\ pc' = "idle"
    /\ metadata' = NoMetadata
    /\ additional_attributes' = NoAttributes
    /\ args' = <<>>
    /\ kwargs' = NoKwargs
    /\ context' = NoContext
    /\ attempt' = 0
    /\ result' = NoneVal
    /\ exc' = NoExc
    /\ handle' = NoHandle
    /\ given' = NoKwargs
    /\ passed' = {}
    /\ invocations' = 0
    /\ failures' = <<>>
    /\ succeeded' = FALSE
    /\ sleeps' = <<>>
    /\ recs' = <<>>
    /\ log' = <<>>
    /\ UNCHANGED <<storeVars, ncalls>>
    /\ UNCHANGED notCompVars

Next ==
    \/ \E c \in Components, ar \in BOOLEAN, mr \in RetryValues,
          a \in ArgsValues, kw \in KwargsValues, t \in ClockValues :
          Execute(c, LocalPlatform, ar, mr, a, kw, t)
    \/ SerializeInputs
    \/ LoopExhausted
    \/ \E r \in ResultKinds : InvokeReturns(r)
    \/ \E ty \in ExceptionTypes \cup BaseExceptionTypes : InvokeRaises(ty)
    \/ Backoff
    \/ \E fault \in 0..(Len(context.parent_hashes) + 1) : RecordSuccess(fault)
    \/ \E fault \in 0..(Len(context.parent_hashes) + 1) : RecordFailure(fault)
    \/ Finish

Spec == Init /\ [][Next]_vars

\* the same executor with a platform driver selected
NextPlatform ==
    \/ \E c \in Components, p \in PlatformValues, ar \in BOOLEAN,
          mr \in RetryValues, a \in ArgsValues, t \in ClockValues :
          Execute(c, p, ar, mr, a, NoKwargs, t)
    \/ SerializeInputs
    \/ LoopExhausted
    \/ \E r \in ResultKinds : InvokeReturns(r)
    \/ \E ty \in ExceptionTypes \cup BaseExceptionTypes : InvokeRaises(ty)
    \/ PlatformRejects
    \/ Backoff
    \/ \E fault \in 0..(Len(context.parent_hashes) + 1) : RecordSuccess(fault)
    \/ \E fault \in 0..(Len(context.parent_hashes) + 1) : RecordFailure(fault)
    \/ Finish

SpecPlatform == Init /\ [][NextPlatform]_vars


(***************************************************************************)
(* PipelineExecutor.execute, step by step.                                 *)
(***************************************************************************)
\* PipelineExecutor._generate_pipeline_id: sha256("{time}-{name}")[:16]
generate_pipeline_id(t, name) == <<name, t>>

\* the attributes of _record_pipeline_start
pipeline_start_attributes(cfg, pid) ==
    [Name |-> <<"Pipeline", cfg.name>>, PipelineID |-> pid,
     Type |-> "PipelineStart"]

\* the attributes of _record_pipeline_completion; "if error:" skips an
\* empty message
pipeline_completion_attributes(cfg, pid, success, error) ==
    [Name |-> <<"Pipeline", cfg.name>>, PipelineID |-> pid,
     Success |-> success, Type |-> "PipelineEnd"] @@
    (IF error # "" THEN [Error |-> error] ELSE NoAttributes)

\* raise PipelineExecutionError(f"Pipeline {name} failed: {e}") from e
pipeline_execution_error(cfg, e) ==
    Exc("PipelineExecutionError", 0, CauseOf(e), NoneVal, "failed")

\* TwinGraphLogger defines log_execution and log_error only: the
\* logger.info(...) of MonitoringContext.__enter__ raises AttributeError
monitoring_enter_raises(cfg) == cfg.monitoring_enabled

\* control flow of the try statement of PipelineExecutor.execute after
\* _record_pipeline_start
after_pipeline_start_ignoring(raised) == "run"
after_pipeline_start(raised) == IF raised THEN "pexcept" ELSE "run"

\* "if self.clear_graph:" of execute
clears_graph_always(clear_graph) == TRUE
clears_graph(clear_graph) == clear_graph

PipelineNames == {"etl"}
PipelineValues == {"done", NoneVal}
PipelineMessages == {"", "boom"}

\* execute, lines 331-335: clear the graph if configured (outside the try
\* statement), read the clock, derive the pipeline id
PipelineExecute(n, cg, ce, me, t, fault) ==
    /\ ppc = "idle"
    /\ npipes < MaxPipelines
    /\ npipes' = npipes + 1
    /\ pconfig' = [name |-> n, clear_graph |-> cg, celery_enabled |-> ce,
                   monitoring_enabled |-> me]
    /\ IF clears_graph(cg) /\ fault = 0
       THEN /\ pexc' = graph_operation_error("GremlinError")
            /\ plog' = <<"clear_failed", "raise">>
            /\ ppc' = "raised"
            /\ UNCHANGED <<now, vertices, edges, pipeline_id>>
       ELSE /\ vertices' = IF clears_graph(cg) THEN {} ELSE vertices
            /\ edges' = IF clears_graph(cg) THEN EmptyBag ELSE edges
            /\ now' = t
            /\ pipeline_id' = generate_pipeline_id(t, n)
            /\ plog' = IF clears_graph(cg) THEN <<"clear">> ELSE <<>>
            /\ ppc' = "start"
            /\ pexc' = pexc
    /\ pools' = IF clears_graph(cg)
                THEN connect(pools, <<"pipeline", npipes + 1>>) ELSE pools
    /\ UNCHANGED <<nextVid, presult, pret>>
    /\ UNCHANGED notPipeVars

\* execute, lines 337-339, and _record_pipeline_start
RecordPipelineStart(fault) ==
    /\ ppc = "start"
    /\ LET w == add_pipeline_node(vertices, nextVid, npipes,
                    pipeline_start_attributes(pconfig, pipeline_id), fault)
       IN  /\ vertices' = w.V
           /\ pools' = connect(pools, <<"pipeline", npipes>>)
           /\ nextVid' = IF w.raised THEN nextVid ELSE nextVid + 1
           /\ ppc' = after_pipeline_start(w.raised)
           /\ pexc' = IF w.raised THEN graph_operation_error(w.cause) ELSE pexc
           /\ plog' = Append(plog, IF w.raised THEN "start_failed" ELSE "start")
    /\ UNCHANGED <<now, edges, npipes, pconfig, pipeline_id, presult, pret>>
    /\ UNCHANGED notPipeVars

\* execute, lines 341-343: _execute_distributed raises NotImplementedError
ExecuteDistributed ==
    /\ ppc = "run"
    /\ pconfig.celery_enabled
    /\ pexc' = Exc("NotImplementedError", 0, <<>>, NoneVal, "coming soon")
    /\ ppc' = "pexcept"
    /\ UNCHANGED <<storeVars, npipes, pconfig, pipeline_id, presult, pret, plog>>
    /\ UNCHANGED notPipeVars

\* _execute_local, line 384: entering the monitoring context fails
EnterMonitoringRaises ==
    /\ ppc = "run"
    /\ ~pconfig.celery_enabled
    /\ monitoring_enter_raises(pconfig)
    /\ pexc' = Exc("AttributeError", 0, <<>>, NoneVal, "no attribute info")
    /\ ppc' = "pexcept"
    /\ UNCHANGED <<storeVars, npipes, pconfig, pipeline_id, presult, pret, plog>>
    /\ UNCHANGED notPipeVars

\* _execute_local, line 385: the composition function returns v
FunctionReturns(v) ==
    /\ ppc = "run"
    /\ ~pconfig.celery_enabled
    /\ ~monitoring_enter_raises(pconfig)
    /\ presult' = v
    /\ plog' = plog \o <<"invoke", "function_returned">>
    /\ ppc' = "complete"
    /\ UNCHANGED <<storeVars, npipes, pconfig, pipeline_id, pexc, pret>>
    /\ UNCHANGED notPipeVars

\* _execute_local, line 385: the composition function raises
FunctionRaises(ty, m) ==
    /\ ppc = "run"
    /\ ~pconfig.celery_enabled
    /\ ~monitoring_enter_raises(pconfig)
    /\ pexc' = Exc(ty, 1, <<>>, NoneVal, m)
    /\ IF caught_by_except_Exception(ty)
       THEN /\ ppc' = "pexcept"
            /\ plog' = plog \o <<"invoke", "function_raised">>
       ELSE /\ ppc' = "raised"
            /\ plog' = plog \o <<"invoke", "function_raised", "raise">>
    /\ UNCHANGED <<storeVars, npipes, pconfig, pipeline_id, presult, pret>>
    /\ UNCHANGED notPipeVars

\* execute, lines 348-352: record the completion, return the result
RecordPipelineCompletion(fault) ==
    /\ ppc = "complete"
    /\ LET w == add_pipeline_node(vertices, nextVid, npipes,
                    pipeline_completion_attributes(pconfig, pipeline_id,
                                                   TRUE, ""), fault)
       IN  /\ vertices' = w.V
           /\ pools' = connect(pools, <<"pipeline", npipes>>)
           /\ nextVid' = IF w.raised THEN nextVid ELSE nextVid + 1
           /\ IF w.raised
              THEN /\ pexc' = graph_operation_error(w.cause)
                   /\ ppc' = "pexcept"
                   /\ plog' = Append(plog, "end_failed")
                   /\ pret' = pret
              ELSE /\ pret' = presult
                   /\ ppc' = "returned"
                   /\ plog' = plog \o <<"end", "return">>
                   /\ pexc' = pexc
    /\ UNCHANGED <<now, edges, npipes, pconfig, pipeline_id, presult>>
    /\ UNCHANGED notPipeVars

\* execute, lines 354-361: record the failure, raise PipelineExecutionError
RecordPipelineFailure(fault) ==
    /\ ppc = "pexcept"
    /\ LET w == add_pipeline_node(vertices, nextVid, npipes,
                    pipeline_completion_attributes(pconfig, pipeline_id,
                                                   FALSE, pexc.msg), fault)
       IN  /\ vertices' = w.V
           /\ pools' = connect(pools, <<"pipeline", npipes>>)
           /\ nextVid' = IF w.raised THEN nextVid ELSE nextVid + 1
           /\ pexc' = IF w.raised THEN graph_operation_error(w.cause)
                      ELSE pipeline_execution_error(pconfig, pexc)
           /\ plog' = plog \o <<IF w.raised THEN "end_failed" ELSE "end",
                                "raise">>
    /\ ppc' = "raised"
    /\ UNCHANGED <<now, edges, npipes, pconfig, pipeline_id, presult, pret>>
    /\ UNCHANGED notPipeVars

\* the caller has the value or the error; the executor is dropped
PipelineFinish ==
    /\ ppc \in {"returned", "raised"}
    /\ ppc' = "idle"
    /\ pconfig' = NoPConfig
    /\ pipeline_id' = <<>>
    /\ presult' = NoneVal
    /\ pexc' = NoExc
    /\ pret' = NoneVal
    /\ plog' = <<>>
    /\ UNCHANGED <<storeVars, npipes>>
    /\ UNCHANGED notPipeVars

NextPipeline ==
    \/ \E n \in PipelineNames, cg \in BOOLEAN, ce \in BOOLEAN, me \in BOOLEAN,
          t \in ClockValues, fault \in 0..1 :
          PipelineExecute(n, cg, ce, me, t, fault)
    \/ \E fault \in 0..1 : RecordPipelineStart(fault)
    \/ ExecuteDistributed
    \/ EnterMonitoringRaises
    \/ \E v \in PipelineValues : FunctionReturns(v)
    \/ \E ty \in {"RuntimeError"} \cup BaseExceptionTypes,
          m \in PipelineMessages : FunctionRaises(ty, m)
    \/ \E fault \in 0..1 : RecordPipelineCompletion(fault)
    \/ \E fault \in 0..1 : RecordPipelineFailure(fault)
    \/ PipelineFinish

SpecPipeline == Init /\ [][NextPipeline]_vars


(***************************************************************************)
(* WorkflowEngine (twingraph/core/workflow_engine.py) run by the API's     *)
(* run_workflow_async (twingraph/api/main.py).                             *)
(***************************************************************************)
MaxNodes == 3        \* nodes of a workflow
MaxEdges == 2        \* edges of a workflow

\* node ids; an edge may also name a source that is no node of the workflow
WNodeIds == {"A", "B", "C"}
GhostId == "ghost"
\* Node.type: "A" is an input node, the others are components
NodeType(id) == IF id = "A" THEN "input" ELSE "component"
Node(id) == [id |-> id, type |-> NodeType(id)]

\* Edge.source_handle / Edge.target_handle: Optional[str]
SourceHandles == {NoneVal, "out"}
TargetHandles == {NoneVal, "in"}
EdgeValues ==
    [source : WNodeIds \cup {GhostId}, target : WNodeIds,
     source_handle : SourceHandles, target_handle : TargetHandles]

\* the workflows: node ids are unique
NodeLists ==
    {ns \in UNION {[1..n -> WNodeIds] : n \in 1..MaxNodes} :
        \A i, j \in DOMAIN ns : i # j => ns[i] # ns[j]}
WorkflowValues ==
    [nodes : {[i \in DOMAIN ns |-> Node(ns[i])] : ns \in NodeLists},
     edges : UNION {[1..n -> EdgeValues] : n \in 0..MaxEdges}]

NodeIds(wf) == {wf.nodes[i].id : i \in DOMAIN wf.nodes}

\* Python truthiness of an Optional[str]
truthy(h) == h # NoneVal /\ h # ""

\* dict.get(key) / dict.get(key, default)
dict_get(dict, key, default) ==
    IF key \in DOMAIN dict THEN dict[key] ELSE default

\* WorkflowEngine._build_execution_graph: the keys in insertion order and
\* the adjacency list of every key; edges of unknown sources are dropped
RECURSIVE targets_of(_, _, _)
targets_of(edgs, source, n) ==
    IF n = 0 THEN <<>>
    ELSE IF edgs[n].source = source
         THEN Append(targets_of(edgs, source, n - 1), edgs[n].target)
         ELSE targets_of(edgs, source, n - 1)

build_execution_graph(wf) ==
    [keys |-> [i \in DOMAIN wf.nodes |-> wf.nodes[i].id],
     adj |-> [id \in NodeIds(wf) |-> targets_of(wf.edges, id, Len(wf.edges))]]

\* WorkflowEngine._topological_sort: depth-first search, a node is pushed
\* when its neighbours are done; st = [visited, stack]
RECURSIVE dfs(_, _, _)
RECURSIVE dfs_neighbors(_, _, _, _)
dfs(graph, node, st) ==
    LET st1 == [st EXCEPT !.visited = @ \cup {node}]
        st2 == dfs_neighbors(graph, dict_get(graph.adj, node, <<>>), 1, st1)
    IN  [st2 EXCEPT !.stack = Append(@, node)]
dfs_neighbors(graph, neighbors, i, st) ==
    IF i > Len(neighbors) THEN st
    ELSE dfs_neighbors(graph, neighbors, i + 1,
                       IF neighbors[i] \in st.visited THEN st
                       ELSE dfs(graph, neighbors[i], st))

RECURSIVE dfs_roots(_, _, _)
dfs_roots(graph, i, st) ==
    IF i > Len(graph.keys) THEN st
    ELSE dfs_roots(graph, i + 1,
                   IF graph.keys[i] \in st.visited THEN st
                   ELSE dfs(graph, graph.keys[i], st))

\* stack[::-1]
reversed(seq) == [i \in DOMAIN seq |-> seq[Len(seq) + 1 - i]]

topological_sort_unreversed(graph) ==
    dfs_roots(graph, 1, [visited |-> {}, stack |-> <<>>]).stack
topological_sort(graph) ==
    reversed(dfs_roots(graph, 1, [visited |-> {}, stack |-> <<>>]).stack)

\* WorkflowEngine._get_node_by_id: the first node with that id, or None
NoNode == [id |-> NoneVal, type |-> NoneVal]
get_node_by_id(wf, node_id) ==
    IF node_id \in NodeIds(wf)
    THEN wf.nodes[CHOOSE i \in DOMAIN wf.nodes :
                     /\ wf.nodes[i].id = node_id
                     /\ \A j \in DOMAIN wf.nodes :
                           wf.nodes[j].id = node_id => i <= j]
    ELSE NoNode

\* dict.update / item assignment: the right operand wins
dict_update(dict, other) == other @@ dict

\* WorkflowEngine._gather_inputs, after the first n edges
RECURSIVE gather_inputs(_, _, _, _)
gather_inputs(node_id, edgs, results, n) ==
    IF n = 0 THEN EmptyDict
    ELSE LET inputs == gather_inputs(node_id, edgs, results, n - 1)
             edge == edgs[n]
             source_result == dict_get(results, edge.source, EmptyDict)
         IN  IF edge.target # node_id THEN inputs
             ELSE IF truthy(edge.target_handle) /\ truthy(edge.source_handle)
             THEN dict_update(inputs,
                      [k \in {edge.target_handle} |->
                          dict_get(source_result, edge.source_handle, NoneVal)])
             ELSE dict_update(inputs, source_result)

\* what a component's code returns: the mapping of its output ports
component_result(node_id) == [out |-> node_id]

\* the except block of _execute_node ends in "raise": the loop of execute
\* is left and run_workflow_async sees the exception
after_node_failure_continuing == "loop"
after_node_failure == "finished"

\* api/main.py execute_workflow: the execution is entered in the table as
\* pending and run_workflow_async is scheduled
execute_workflow(wf) ==
    /\ wpc = "idle"
    /\ workflow' = wf
    /\ execution' = [status |-> "pending", error |-> NoneVal,
                     nodes |-> [id \in NodeIds(wf) |-> "pending"]]
    /\ wpc' = "pending"
    /\ UNCHANGED <<execution_order, wi, wcontext, winputs, wlog>>
    /\ UNCHANGED notWfVars

\* run_workflow_async, lines 293-296: the status becomes running
run_workflow_async ==
    /\ wpc = "pending"
    /\ execution' = [execution EXCEPT !.status = "running"]
    /\ wpc' = "running"
    /\ UNCHANGED <<workflow, execution_order, wi, wcontext, winputs, wlog>>
    /\ UNCHANGED notWfVars

\* WorkflowEngine.execute, lines 31-42: build the graph, create the context,
\* sort
WorkflowExecute ==
    /\ wpc = "running"
    /\ wcontext' = [nodes |-> EmptyDict, results |-> EmptyDict,
                    status |-> "running"]
    /\ execution_order' = topological_sort(build_execution_graph(workflow))
    /\ wi' = 1
    /\ wpc' = "loop"
    /\ UNCHANGED <<workflow, execution, winputs, wlog>>
    /\ UNCHANGED notWfVars

\* execute, lines 44-47: an id of the order that is no node is passed over
SkipUnknownNode ==
    /\ wpc = "loop"
    /\ wi <= Len(execution_order)
    /\ get_node_by_id(workflow, execution_order[wi]) = NoNode
    /\ wi' = wi + 1
    /\ UNCHANGED <<wpc, workflow, execution_order, wcontext, execution,
                   winputs, wlog>>
    /\ UNCHANGED notWfVars

\* _execute_node, lines 88-109: the node runs and completes
ExecuteNodeCompletes ==
    /\ wpc = "loop"
    /\ wi <= Len(execution_order)
    /\ get_node_by_id(workflow, execution_order[wi]) # NoNode
    /\ LET node == get_node_by_id(workflow, execution_order[wi])
           inputs == gather_inputs(node.id, workflow.edges, wcontext.results,
                                   Len(workflow.edges))
           res == IF node.type = "component" THEN component_result(node.id)
                  ELSE inputs
       IN  /\ winputs' = dict_update(winputs, [k \in {node.id} |-> inputs])
           /\ wcontext' =
                 [wcontext EXCEPT
                    !.results = dict_update(@, [k \in {node.id} |-> res]),
                    !.nodes = dict_update(@, [k \in {node.id} |->
                                 [status |-> "completed", output |-> res,
                                  error |-> NoneVal]])]
           /\ wlog' = wlog \o <<<<"start", node.id>>, <<"run", node.id>>,
                                <<"end", node.id>>>>
    /\ wi' = wi + 1
    /\ UNCHANGED <<wpc, workflow, execution_order, execution>>
    /\ UNCHANGED notWfVars

\* _execute_node, lines 88-114: the component raises; the node is marked
\* failed and the exception travels through execute to run_workflow_async,
\* lines 304-307, which marks the execution failed
ExecuteNodeFails ==
    /\ wpc = "loop"
    /\ wi <= Len(execution_order)
    /\ get_node_by_id(workflow, execution_order[wi]) # NoNode
    /\ LET node == get_node_by_id(workflow, execution_order[wi])
           inputs == gather_inputs(node.id, workflow.edges, wcontext.results,
                                   Len(workflow.edges))
       IN  /\ node.type = "component"
           /\ winputs' = dict_update(winputs, [k \in {node.id} |-> inputs])
           /\ wcontext' =
                 [wcontext EXCEPT
                    !.nodes = dict_update(@, [k \in {node.id} |->
                                 [status |-> "failed", output |-> NoneVal,
                                  error |-> "boom"]])]
           /\ wlog' = wlog \o <<<<"start", node.id>>, <<"run", node.id>>,
                                <<"fail", node.id>>>>
    /\ wpc' = after_node_failure
    /\ IF wpc' = "finished"
       THEN /\ execution' = [execution EXCEPT !.status = "failed",
                                               !.error = "boom"]
            /\ wi' = wi
       ELSE /\ execution' = execution
            /\ wi' = wi + 1
    /\ UNCHANGED <<workflow, execution_order>>
    /\ UNCHANGED notWfVars

\* execute, line 49, and run_workflow_async, lines 301-302: every node of
\* the order is done; the execution is completed
WorkflowReturns ==
    /\ wpc = "loop"
    /\ wi > Len(execution_order)
    /\ execution' = [execution EXCEPT !.status = "completed"]
    /\ wpc' = "finished"
    /\ UNCHANGED <<workflow, execution_order, wi, wcontext, winputs, wlog>>
    /\ UNCHANGED notWfVars

\* cancel_execution (POST /api/executions/{id}/cancel), served while the
\* task of run_workflow_async is suspended in the subprocess of the
\* component node it has in hand: the status is overwritten, the task is
\* left as it is
cancel_execution ==
    /\ wpc = "loop"
    /\ wi > 1
    /\ get_node_by_id(workflow, execution_order[wi - 1]).type = "component"
    /\ execution.status # "cancelled"
    /\ execution' = [execution EXCEPT !.status = "cancelled"]
    /\ wlog' = Append(wlog, <<"cancel", NoneVal>>)
    /\ UNCHANGED <<wpc, workflow, execution_order, wi, wcontext, winputs>>
    /\ UNCHANGED notWfVars

NextWorkflow ==
    \/ wpc = "idle" /\ \E wf \in WorkflowValues : execute_workflow(wf)
    \/ cancel_execution
    \/ run_workflow_async
    \/ WorkflowExecute
    \/ SkipUnknownNode
    \/ ExecuteNodeCompletes
    \/ ExecuteNodeFails
    \/ WorkflowReturns

SpecWorkflow == Init /\ [][NextWorkflow]_vars


(***************************************************************************)
(* Execution ids and generate_hash (orchestration/robust_utils.py).        *)
(* sha256 is taken to be injective: a digest is the text it digests.       *)
(***************************************************************************)
MaxHashCalls == 2    \* ids and hashes generated per behaviour
MaxStamp == 2        \* distinct timestamps

\* the order of Python's str comparison on the strings that are compared
StrOrder == <<"a", "b", "p1", "p2">>
str_index(x) == CHOOSE i \in DOMAIN StrOrder : StrOrder[i] = x
str_lt(x, y) == str_index(x) < str_index(y)

\* sorted(list of str): insertion sort
RECURSIVE insert_sorted(_, _)
insert_sorted(seq, x) ==
    IF seq = <<>> THEN <<x>>
    ELSE IF str_lt(x, Head(seq)) THEN <<x>> \o seq
    ELSE <<Head(seq)>> \o insert_sorted(Tail(seq), x)
RECURSIVE sorted_prefix(_, _)
sorted_prefix(seq, n) ==
    IF n = 0 THEN <<>> ELSE insert_sorted(sorted_prefix(seq, n - 1), seq[n])
unsorted(seq) == seq
sorted(seq) == sorted_prefix(seq, Len(seq))

\* json.dumps(inputs, sort_keys=True): a dict is held as its items
\* <<key, value>> in insertion order; the text lists them by key
RECURSIVE insert_by_key(_, _)
insert_by_key(items, item) ==
    IF items = <<>> THEN <<item>>
    ELSE IF str_lt(item[1], Head(items)[1]) THEN <<item>> \o items
    ELSE <<Head(items)>> \o insert_by_key(Tail(items), item)
RECURSIVE json_dumps_prefix(_, _)
json_dumps_prefix(items, n) ==
    IF n = 0 THEN <<>>
    ELSE insert_by_key(json_dumps_prefix(items, n - 1), items[n])
json_dumps_sort_keys(items) == json_dumps_prefix(items, Len(items))

\* datetime.isoformat()
isoformat(t) == <<"iso", t>>

\* robust_utils.generate_hash
generate_hash(parent_hashes, func_name, inputs, timestamp) ==
    [parent_hashes |-> sorted(parent_hashes),
     function |-> func_name,
     inputs |-> json_dumps_sort_keys(inputs),
     timestamp |-> isoformat(timestamp)]

\* robust_utils.set_hash: generate_hash(parent_hash, "", {}) at utcnow()
set_hash(parent_hash, utcnow) == generate_hash(parent_hash, "", <<>>, utcnow)

\* the arguments that are tried
HashNames == {"add", "mul"}
HashParents == {"p1", "p2"}
ParentLists == UNION {[1..n -> HashParents] : n \in 0..MaxParents}
InputDicts ==
    {<<>>, <<<<"a", 1>>>>, <<<<"a", 2>>>>, <<<<"b", 1>>>>,
     <<<<"a", 1>>, <<"b", 1>>>>, <<<<"b", 1>>, <<"a", 1>>>>,
     <<<<"a", 2>>, <<"b", 1>>>>, <<<<"b", 1>>, <<"a", 2>>>>}
Stamps == 1..MaxStamp

HashCall(fn, name, inputs, parents, t, value) ==
    [fn |-> fn, name |-> name, inputs |-> inputs, parents |-> parents,
     timestamp |-> t, value |-> value]

\* ComponentExecutor.execute, lines 72-77: an invocation of component name
\* with these inputs and parents, at clock reading t, gets its execution id
GenerateExecutionId(name, inputs, parents, t) ==
    /\ Len(hcalls) < MaxHashCalls
    /\ hcalls' = Append(hcalls, HashCall("execution_id", name, inputs, parents,
                                         t, generate_execution_id(t, name)))
    /\ UNCHANGED notHashVars

\* a call of generate_hash with an explicit timestamp
GenerateHash(parents, name, inputs, t) ==
    /\ Len(hcalls) < MaxHashCalls
    /\ hcalls' = Append(hcalls, HashCall("generate_hash", name, inputs, parents,
                                         t, generate_hash(parents, name,
                                                          inputs, t)))
    /\ UNCHANGED notHashVars

\* a call of set_hash at clock reading t
SetHash(parents, t) ==
    /\ Len(hcalls) < MaxHashCalls
    /\ hcalls' = Append(hcalls, HashCall("set_hash", "", <<>>, parents, t,
                                         set_hash(parents, t)))
    /\ UNCHANGED notHashVars

NextHash ==
    \/ \E name \in HashNames, inputs \in InputDicts, parents \in ParentLists,
          t \in Stamps : GenerateExecutionId(name, inputs, parents, t)
    \/ \E name \in HashNames, inputs \in InputDicts, parents \in ParentLists,
          t \in Stamps : GenerateHash(parents, name, inputs, t)
    \/ \E parents \in ParentLists, t \in Stamps : SetHash(parents, t)

SpecHash == Init /\ [][NextHash]_vars


(***************************************************************************)
(* TwinGraphSerializer (orchestration/robust_utils.py).                    *)
(***************************************************************************)
MaxItems == 1        \* items of a list, tuple, mapping, array or table
MaxDepth == 2        \* nesting of the values

PyStr(s) == Py("str", <<s>>, <<>>, <<>>)
PyInt(s) == Py("int", <<s>>, <<>>, <<>>)
PyList(items) == Py("list", <<>>, <<>>, items)
PyTuple(items) == Py("tuple", <<>>, <<>>, items)
PyDict(keys, items) == Py("dict", <<>>, keys, items)

\* str(n) for the lengths that occur
DecimalDigits == <<"1", "2", "3", "4">>
str_of_int(n) == IF n = 0 THEN "0" ELSE DecimalDigits[n]

\* the supported values: primitives, datetimes and paths, and lists, tuples,
\* string-keyed mappings, dataclass instances, arrays and tables of them
PyLeaves ==
    {PyNone, PyInt("1"), PyStr("a"),
     Py("datetime", <<"d1">>, <<>>, <<>>), Py("Path", <<"/tmp">>, <<>>, <<>>)}
ItemLists(X) == UNION {[1..n -> X] : n \in 0..MaxItems}
\* RangeIndex(n) of a DataFrame
default_index(n) == [i \in 1..n |-> str_of_int(i - 1)]
PyArrays ==
    {Py("ndarray", <<"int64">>, <<>>, items) : items \in ItemLists({PyInt("1")})}
PyTables ==
    {Py("DataFrame", default_index(Len(rows)), <<"c">>, rows) :
        rows \in ItemLists({PyDict(<<"c">>, <<PyInt("1")>>)})}
    \cup {Py("DataFrame", <<"x">>, <<"c">>, <<PyDict(<<"c">>, <<PyInt("1")>>)>>)}
PyContainers(X) ==
    {PyList(items) : items \in ItemLists(X)}
    \cup {PyTuple(items) : items \in ItemLists(X)}
    \cup {PyDict([i \in DOMAIN items |-> "k"], items) : items \in ItemLists(X)}
    \cup {Py("dataclass", <<"Point">>, <<"x">>, <<x>>) : x \in X}
    \cup PyArrays \cup PyTables
RECURSIVE PyValues(_)
PyValues(depth) ==
    IF depth = 0 THEN PyLeaves
    ELSE PyValues(depth - 1) \cup PyContainers(PyValues(depth - 1))

\* obj[key] of a dict
py_getitem(obj, key) ==
    obj.items[CHOOSE i \in DOMAIN obj.keys : obj.keys[i] = key]
py_contains(obj, key) == \E i \in DOMAIN obj.keys : obj.keys[i] = key

\* dataclasses.asdict: dataclass instances become dicts, recursively through
\* lists, tuples and dicts
RECURSIVE asdict(_)
asdict(obj) ==
    IF obj.kind = "dataclass"
    THEN PyDict(obj.keys, [i \in DOMAIN obj.items |-> asdict(obj.items[i])])
    ELSE IF obj.kind \in {"list", "tuple", "dict"}
    THEN [obj EXCEPT !.items = [i \in DOMAIN obj.items |-> asdict(obj.items[i])]]
    ELSE obj

\* datetime.fromisoformat
fromisoformat(atom) == <<atom[2]>>

\* TwinGraphSerializer.serialize
RECURSIVE serialize(_)
serialize(obj) ==
    CASE obj.kind = "None" -> PyNone
      [] obj.kind \in {"str", "int"} -> obj
      [] obj.kind = "datetime" ->
            PyDict(<<"__type__", "value">>,
                   <<PyStr("datetime"),
                     Py("str", isoformat(obj.atom[1]), <<>>, <<>>)>>)
      [] obj.kind = "Path" ->
            PyDict(<<"__type__", "value">>,
                   <<PyStr("Path"), Py("str", obj.atom, <<>>, <<>>)>>)
      [] obj.kind = "ndarray" ->
            PyDict(<<"__type__", "dtype", "shape", "data">>,
                   <<PyStr("numpy.ndarray"),
                     Py("str", obj.atom, <<>>, <<>>),
                     PyTuple(<<PyInt(str_of_int(Len(obj.items)))>>),
                     PyList(obj.items)>>)
      [] obj.kind = "DataFrame" ->
            PyDict(<<"__type__", "data", "columns", "index">>,
                   <<PyStr("pandas.DataFrame"),
                     PyList(obj.items),
                     PyList([i \in DOMAIN obj.keys |-> PyStr(obj.keys[i])]),
                     PyList([i \in DOMAIN obj.atom |-> PyStr(obj.atom[i])])>>)
      [] obj.kind = "list" ->
            PyList([i \in DOMAIN obj.items |-> serialize(obj.items[i])])
      [] obj.kind = "tuple" ->
            PyDict(<<"__type__", "value">>,
                   <<PyStr("tuple"),
                     PyList([i \in DOMAIN obj.items |->
                                serialize(obj.items[i])])>>)
      [] obj.kind = "dict" ->
            PyDict(obj.keys,
                   [i \in DOMAIN obj.items |-> serialize(obj.items[i])])
      [] obj.kind = "dataclass" ->
            PyDict(<<"__type__", "__class__", "data">>,
                   <<PyStr("dataclass"), PyStr(obj.atom[1]),
                     serialize(asdict(obj))>>)

\* TwinGraphSerializer.deserialize; there is no branch for "dataclass"
RECURSIVE deserialize(_)
deserialize(obj) ==
    LET tagged(t) == /\ obj.kind = "dict"
                     /\ py_contains(obj, "__type__")
                     /\ py_getitem(obj, "__type__") = PyStr(t)
        nested == [obj EXCEPT !.items =
                      [i \in DOMAIN obj.items |-> deserialize(obj.items[i])]]
    IN  CASE obj.kind = "None" -> PyNone
          [] tagged("datetime") ->
                Py("datetime", fromisoformat(py_getitem(obj, "value").atom),
                   <<>>, <<>>)
          [] tagged("Path") ->
                Py("Path", py_getitem(obj, "value").atom, <<>>, <<>>)
          [] tagged("numpy.ndarray") ->
                Py("ndarray", py_getitem(obj, "dtype").atom, <<>>,
                   py_getitem(obj, "data").items)
          [] tagged("pandas.DataFrame") ->
                LET data == py_getitem(obj, "data").items
                    columns == py_getitem(obj, "columns").items
                IN  Py("DataFrame", default_index(Len(data)),
                       [i \in DOMAIN columns |-> columns[i].atom[1]], data)
          [] tagged("tuple") ->
                LET value == py_getitem(obj, "value").items
                IN  PyTuple([i \in DOMAIN value |-> deserialize(value[i])])
          [] tagged("repr") -> py_getitem(obj, "value")
          [] OTHER ->
                IF obj.kind \in {"dict", "list"} THEN nested ELSE obj

\* serialize(v) for a supported value v
Serialize(v) ==
    /\ spc = "idle"
    /\ svalue' = v
    /\ sencoded' = serialize(v)
    /\ spc' = "serialized"
    /\ UNCHANGED sdecoded
    /\ UNCHANGED notSerVars

\* deserialize of what serialize returned
Deserialize ==
    /\ spc = "serialized"
    /\ sdecoded' = deserialize(sencoded)
    /\ spc' = "deserialized"
    /\ UNCHANGED <<svalue, sencoded>>
    /\ UNCHANGED notSerVars

NextSerializer ==
    \/ spc = "idle" /\ \E v \in PyValues(MaxDepth) : Serialize(v)
    \/ Deserialize

SpecSerializer == Init /\ [][NextSerializer]_vars

\* the tags deserialize has a branch for (lines 247-273)
KnownTypes == {"datetime", "Path", "numpy.ndarray", "pandas.DataFrame",
               "pandas.Series", "tuple", "pickle", "cloudpickle", "repr"}

\* tags deserialize has no branch for: the serializer's own "dataclass"
\* and one of a later version
ForeignTypes == {"dataclass", "custom"}

\* mappings with a foreign tag, around what serialize produces
ForeignEnvelopes ==
    {PyDict(<<"__type__", "data">>, <<PyStr(t), serialize(v)>>) :
        t \in ForeignTypes, v \in PyValues(MaxDepth - 1)}

\* deserialize of a mapping that some other writer produced
DeserializeEnvelope(obj) ==
    /\ spc = "idle"
    /\ svalue' = PyNone
    /\ sencoded' = obj
    /\ sdecoded' = deserialize(obj)
    /\ spc' = "decoded"
    /\ UNCHANGED notSerVars

\* the caller has the value
SerializerDone ==
    /\ spc = "decoded"
    /\ spc' = "idle"
    /\ UNCHANGED <<svalue, sencoded, sdecoded>>
    /\ UNCHANGED notSerVars

NextDeserialize ==
    \/ spc = "idle" /\ \E obj \in ForeignEnvelopes : DeserializeEnvelope(obj)
    \/ SerializerDone

SpecDeserialize == Init /\ [][NextDeserialize]_vars


(***************************************************************************)
(* resolve_graph_config and GraphConfig (orchestration/robust_utils.py).   *)
(* A float is held in tenths: 1.0 is 10.                                   *)
(***************************************************************************)
\* the class attributes of GraphConfig
DefaultEndpoint == "ws://127.0.0.1:8182/gremlin"
DefaultTimeout == 30
DefaultRetryCount == 3
DefaultRetryDelay == 10
GraphConfig ==
    [endpoint |-> DefaultEndpoint, timeout |-> DefaultTimeout,
     retry_count |-> DefaultRetryCount, retry_delay |-> DefaultRetryDelay]
ConfigKeys == {"endpoint", "timeout", "retry_count", "retry_delay"}

\* the environment variable of each key
EnvVar(key) ==
    CASE key = "endpoint" -> "TWINGRAPH_GREMLIN_ENDPOINT"
      [] key = "timeout" -> "TWINGRAPH_GREMLIN_TIMEOUT"
      [] key = "retry_count" -> "TWINGRAPH_RETRY_COUNT"
      [] key = "retry_delay" -> "TWINGRAPH_RETRY_DELAY"

\* str(n), and int(s) / float(s) of the texts that occur
NumberTexts == {<<"30", 30>>, <<"60", 60>>, <<"3", 3>>, <<"5", 5>>,
                <<"1.0", 10>>, <<"2.0", 20>>}
str_of_number(n) == (CHOOSE p \in NumberTexts : p[2] = n)[1]
number_of_str(s) == (CHOOSE p \in NumberTexts : p[1] = s)[2]

\* os.getenv(name, default)
getenv(env, name, default) == IF name \in DOMAIN env THEN env[name] ELSE default

\* GraphConfig.from_env
from_env(env) ==
    [endpoint |-> getenv(env, "TWINGRAPH_GREMLIN_ENDPOINT", DefaultEndpoint),
     timeout |-> number_of_str(getenv(env, "TWINGRAPH_GREMLIN_TIMEOUT",
                                      str_of_number(DefaultTimeout))),
     retry_count |-> number_of_str(getenv(env, "TWINGRAPH_RETRY_COUNT",
                                          str_of_number(DefaultRetryCount))),
     retry_delay |-> number_of_str(getenv(env, "TWINGRAPH_RETRY_DELAY",
                                          str_of_number(DefaultRetryDelay)))]

\* "if env_config_obj.endpoint != GraphConfig.endpoint: config = env_config_obj"
env_applies(env_config_obj) == env_config_obj.endpoint # DefaultEndpoint

\* the loop over decorator_config.items(): an attribute of the config is
\* set, 'graph_endpoint' sets the endpoint, any other key is ignored
apply_decorator_config(config, decorator_config) ==
    [key \in ConfigKeys |->
        IF key \in DOMAIN decorator_config THEN decorator_config[key]
        ELSE IF key = "endpoint" /\ "graph_endpoint" \in DOMAIN decorator_config
        THEN decorator_config["graph_endpoint"]
        ELSE config[key]]

\* resolve_graph_config(decorator_config, env_config=None, default_config=None)
resolve_graph_config(decorator_config, env) ==
    LET config == GraphConfig
        env_config_obj == from_env(env)
        config1 == IF env_applies(env_config_obj) THEN env_config_obj
                   ELSE config
    IN  apply_decorator_config(config1, decorator_config)

\* the decorator configs and the environments that are tried: every key is
\* set or not, the endpoint under either spelling; the environment may name
\* the default endpoint itself
OptionalEntry(key, values) ==
    {EmptyDict} \cup {[k \in {key} |-> v] : v \in values}
DecoratorConfigs ==
    {e @@ t @@ c @@ r :
        e \in OptionalEntry("endpoint", {"ws://decorator"})
              \cup OptionalEntry("graph_endpoint", {"ws://decorator"}),
        t \in OptionalEntry("timeout", {90}),
        c \in OptionalEntry("retry_count", {7}),
        r \in OptionalEntry("retry_delay", {30})}
Environments ==
    {e @@ t @@ c @@ r :
        e \in OptionalEntry("TWINGRAPH_GREMLIN_ENDPOINT",
                            {"ws://environment", DefaultEndpoint}),
        t \in OptionalEntry("TWINGRAPH_GREMLIN_TIMEOUT", {"60"}),
        c \in OptionalEntry("TWINGRAPH_RETRY_COUNT", {"5"}),
        r \in OptionalEntry("TWINGRAPH_RETRY_DELAY", {"2.0"})}

\* one call of resolve_graph_config under an environment
ResolveGraphConfig(decorator_config, env) ==
    /\ resolved = <<>>
    /\ resolved' = <<[decorator_config |-> decorator_config, env |-> env,
                      config |-> resolve_graph_config(decorator_config, env)]>>
    /\ UNCHANGED notCfgVars

NextConfig ==
    \E decorator_config \in DecoratorConfigs, env \in Environments :
        ResolveGraphConfig(decorator_config, env)

SpecConfig == Init /\ [][NextConfig]_vars

(***************************************************************************)
(* GraphManager called directly (graph/graph_manager.py): every public     *)
(* operation is one action.  The server can refuse the connection that the *)
(* property g opens on first use, or fail the traversal.                   *)
(***************************************************************************)
MaxGraphCalls == 2

GraphFaults == {"none", "connection", "operation"}
\* the exception a traversal meets under a fault: _connect raises
\* GraphConnectionError, the driver raises its own error
fault_cause(fault) ==
    IF fault = "connection" THEN "GraphConnectionError" ELSE "GremlinError"

\* the manager that is called directly holds a pool whenever the
\* constructor of line 41 returned, that is whenever _g is assigned
connect_unless_refused(P, source) ==
    IF source = NoneVal THEN P ELSE connect(P, <<"manager", 0>>)

\* the property g with _connect (graph_manager.py, lines 32-59): what
\* self._g can be after an operation has read g.  _connect runs only while
\* _g is None; it assigns _g at line 47 and sends the test query at line
\* 50, so a refusal met by the constructor leaves None and a refusal met by
\* the test query leaves the source that was just assigned
g_property(source, fault) ==
    IF source # NoneVal THEN {source}
    ELSE IF fault = "connection" THEN {NoneVal, "unverified"}
    ELSE {"verified"}

\* GraphConnectionError can only come from _connect
connection_attempted(source, fault) ==
    fault = "connection" => source = NoneVal

\* outcome of an operation: the exception that leaves it (type, __cause__,
\* the operation its message names) or the value it returns
Raises(type, cause, operation) ==
    [raised |-> type, cause |-> cause, operation |-> operation,
     kind |-> NoneVal, value |-> {}]
Returns(kind, value) ==
    [raised |-> NoneVal, cause |-> NoneVal, operation |-> NoneVal,
     kind |-> kind, value |-> value]

\* "except Exception as e: raise GraphOperationError(f'Failed to ...', cause=e)"
raise_graph_operation_error(cause, operation) ==
    Raises("GraphOperationError", cause, operation)

\* "except Exception as e: logger.error(...); return None" (or [] or {})
log_and_return(kind) == Returns(kind, {})

\* what get_component_by_hash, search_components and get_statistics do with
\* an exception of their try body
query_failure(cause, operation, kind) == log_and_return(kind)

GraphCall(operation, arguments, fault, failed, outcome) ==
    [operation |-> operation, arguments |-> arguments, fault |-> fault,
     failed |-> failed, outcome |-> outcome]

\* the arguments that are tried
GraphHashes == {UserHash, ForeignHash}
GraphNames == {"add", "mul"}
GraphAttributes ==
    {[Name |-> n, ExecutionID |-> h, Hash |-> h] :
        n \in GraphNames, h \in GraphHashes}
    \cup {[Name |-> "add", ExecutionID |-> UserHash],
          [ExecutionID |-> UserHash, Hash |-> UserHash],
          [Name |-> "add", Hash |-> UserHash]}
GraphParents ==
    UNION {[1..n -> GraphHashes] : n \in 0..MaxParents}

\* GraphManager.clear_graph
ClearGraph(fault) ==
    /\ Len(gcalls) < MaxGraphCalls
    /\ connection_attempted(traversal_source, fault)
    /\ traversal_source' \in g_property(traversal_source, fault)
    /\ IF fault = "none"
       THEN /\ vertices' = {}
            /\ edges' = EmptyBag
            /\ gcalls' = Append(gcalls,
                   GraphCall("clear_graph", <<>>, fault, FALSE, Returns("None", {})))
       ELSE /\ gcalls' = Append(gcalls,
                   GraphCall("clear_graph", <<>>, fault, TRUE,
                       raise_graph_operation_error(fault_cause(fault),
                                                   "clear graph")))
            /\ UNCHANGED <<vertices, edges>>
    /\ pools' = connect_unless_refused(pools, traversal_source')
    /\ UNCHANGED <<now, nextVid>>
    /\ UNCHANGED notGmVars

\* GraphManager.add_component_execution.  at is the graph operation that
\* fails (0 the vertex write, i the edge of the i-th parent, larger none);
\* the connection can only be refused where it is opened, at the first one
AddComponentExecution(attributes, parent_hashes, fault, at) ==
    /\ Len(gcalls) < MaxGraphCalls
    /\ fault = "none" <=> at > Len(parent_hashes)
    /\ fault = "connection" => at = 0
    /\ IF required_attributes \subseteq DOMAIN attributes
       THEN /\ connection_attempted(traversal_source, fault)
            /\ traversal_source' \in g_property(traversal_source, fault)
       ELSE UNCHANGED traversal_source
    /\ LET w == add_component_execution(vertices, edges, nextVid, 0,
                                        attributes, parent_hashes, at)
           cause == IF w.cause = "GremlinError" THEN fault_cause(fault)
                    ELSE w.cause
       IN  /\ vertices' = w.V
           /\ pools' = IF required_attributes \subseteq DOMAIN attributes
                       THEN connect_unless_refused(pools, traversal_source') ELSE pools
           /\ edges' = w.E
           /\ nextVid' = IF w.V = vertices THEN nextVid ELSE nextVid + 1
           /\ gcalls' = Append(gcalls,
                  GraphCall("add_component_execution",
                      <<attributes, parent_hashes>>, fault, w.raised,
                      IF w.raised
                      THEN raise_graph_operation_error(cause,
                               "add component execution")
                      ELSE Returns("vertex_id", {nextVid})))
    /\ UNCHANGED now
    /\ UNCHANGED notGmVars

\* GraphManager.add_pipeline_node
AddPipelineNode(attributes, fault) ==
    /\ Len(gcalls) < MaxGraphCalls
    /\ connection_attempted(traversal_source, fault)
    /\ traversal_source' \in g_property(traversal_source, fault)
    /\ LET w == add_pipeline_node(vertices, nextVid, 0, attributes,
                                  IF fault = "none" THEN 1 ELSE 0)
       IN  /\ vertices' = w.V
           /\ pools' = connect_unless_refused(pools, traversal_source')
           /\ nextVid' = IF w.V = vertices THEN nextVid ELSE nextVid + 1
           /\ gcalls' = Append(gcalls,
                  GraphCall("add_pipeline_node", <<attributes>>, fault, w.raised,
                      IF w.raised
                      THEN raise_graph_operation_error(fault_cause(fault),
                               "add pipeline node")
                      ELSE Returns("vertex_id", {nextVid})))
    /\ UNCHANGED <<now, edges>>
    /\ UNCHANGED notGmVars

\* GraphManager.get_component_by_hash: None when no vertex has the hash,
\* otherwise the properties of the first vertex the server lists
GetComponentByHash(hash_value, fault) ==
    /\ Len(gcalls) < MaxGraphCalls
    /\ connection_attempted(traversal_source, fault)
    /\ traversal_source' \in g_property(traversal_source, fault)
    /\ \E outcome \in
           IF fault # "none"
           THEN {query_failure(fault_cause(fault), "get component by hash",
                               "None")}
           ELSE IF has_hash(vertices, hash_value) = {}
           THEN {Returns("None", {})}
           ELSE {Returns("dict", {v.props}) :
                     v \in has_hash(vertices, hash_value)} :
         gcalls' = Append(gcalls,
             GraphCall("get_component_by_hash", <<hash_value>>, fault,
                       fault # "none", outcome))
    /\ pools' = connect_unless_refused(pools, traversal_source')
    /\ UNCHANGED <<now, vertices, edges, nextVid>>
    /\ UNCHANGED notGmVars

\* GraphManager.search_components with the name filter (None: no filter)
SearchComponents(name, fault) ==
    /\ Len(gcalls) < MaxGraphCalls
    /\ connection_attempted(traversal_source, fault)
    /\ traversal_source' \in g_property(traversal_source, fault)
    /\ LET found == {v \in ComponentVertices :
                        name # NoneVal =>
                            "Name" \in DOMAIN v.props /\ v.props.Name = name}
       IN  gcalls' = Append(gcalls,
               GraphCall("search_components", <<name>>, fault, fault # "none",
                   IF fault # "none"
                   THEN query_failure(fault_cause(fault), "search components",
                                      "list")
                   ELSE Returns("list", {v.props : v \in found})))
    /\ pools' = connect_unless_refused(pools, traversal_source')
    /\ UNCHANGED <<now, vertices, edges, nextVid>>
    /\ UNCHANGED notGmVars

\* GraphManager.get_statistics
GetStatistics(fault) ==
    /\ Len(gcalls) < MaxGraphCalls
    /\ connection_attempted(traversal_source, fault)
    /\ traversal_source' \in g_property(traversal_source, fault)
    /\ gcalls' = Append(gcalls,
           GraphCall("get_statistics", <<>>, fault, fault # "none",
               IF fault # "none"
               THEN query_failure(fault_cause(fault), "get graph statistics",
                                  "dict")
               ELSE Returns("dict",
                        {[total_vertices |-> Cardinality(vertices),
                          total_edges |-> BagCardinality(edges),
                          components |-> Cardinality(ComponentVertices),
                          pipelines |-> Cardinality(PipelineVertices)]})))
    /\ pools' = connect_unless_refused(pools, traversal_source')
    /\ UNCHANGED <<now, vertices, edges, nextVid>>
    /\ UNCHANGED notGmVars

\* GraphManager.disconnect, lines 61-72
Disconnect ==
    /\ traversal_source # NoneVal
    /\ traversal_source' = NoneVal
    /\ pools' = pools \ {<<"manager", 0>>}
    /\ UNCHANGED <<now, vertices, edges, nextVid, gcalls>>
    /\ UNCHANGED notGmVars

NextGraph ==
    \/ Disconnect
    \/ \E fault \in GraphFaults : ClearGraph(fault)
    \/ \E attributes \in GraphAttributes, parent_hashes \in GraphParents,
          fault \in GraphFaults, at \in 0..(MaxParents + 1) :
          AddComponentExecution(attributes, parent_hashes, fault, at)
    \/ \E name \in GraphNames, fault \in GraphFaults :
          AddPipelineNode([Name |-> name], fault)
    \/ \E hash_value \in GraphHashes, fault \in GraphFaults :
          GetComponentByHash(hash_value, fault)
    \/ \E name \in GraphNames \cup {NoneVal}, fault \in GraphFaults :
          SearchComponents(name, fault)
    \/ \E fault \in GraphFaults : GetStatistics(fault)

SpecGraph == Init /\ [][NextGraph]_vars

(***************************************************************************)
(* ExecutionMonitor.record_execution (core/logging.py), called from        *)
(* several threads.  The method takes no lock; "metrics[k] += 1" is a load *)
(* of the item, an addition and a store of the item, and another thread    *)
(* can run between the load and the store.                                 *)
(***************************************************************************)
\* the counters record_execution updates, in the order of its statements;
\* every call lasts one unit of time
counter_of(phase, success) ==
    CASE phase = 1 -> "total_executions"
      [] phase = 2 -> "total_duration"
      [] phase = 3 -> IF success THEN "successful_executions"
                      ELSE "failed_executions"
LastPhase == 3

\* a thread calls record_execution(component, platform, duration, success)
RecordExecution(t, success) ==
    /\ mpc[t] = "idle"
    /\ mcalls < MaxMonitorCalls
    /\ mcalls' = mcalls + 1
    /\ msuccess' = [msuccess EXCEPT ![t] = success]
    /\ mphase' = [mphase EXCEPT ![t] = 1]
    /\ mpc' = [mpc EXCEPT ![t] = "load"]
    /\ UNCHANGED <<metrics, mtmp>>
    /\ UNCHANGED notMonVars

\* the load of "self.metrics[k] += 1"
LoadCounter(t) ==
    /\ mpc[t] = "load"
    /\ mtmp' = [mtmp EXCEPT ![t] = metrics[counter_of(mphase[t], msuccess[t])]]
    /\ mpc' = [mpc EXCEPT ![t] = "store"]
    /\ UNCHANGED <<metrics, mphase, msuccess, mcalls>>
    /\ UNCHANGED notMonVars

\* the addition and the store of "self.metrics[k] += 1"; after the last
\* counter the call returns
StoreCounter(t) ==
    /\ mpc[t] = "store"
    /\ metrics' = [metrics EXCEPT ![counter_of(mphase[t], msuccess[t])] =
                       mtmp[t] + 1]
    /\ IF mphase[t] = LastPhase
       THEN /\ mpc' = [mpc EXCEPT ![t] = "idle"]
            /\ mphase' = [mphase EXCEPT ![t] = 0]
       ELSE /\ mpc' = [mpc EXCEPT ![t] = "load"]
            /\ mphase' = [mphase EXCEPT ![t] = mphase[t] + 1]
    /\ UNCHANGED <<mtmp, msuccess, mcalls>>
    /\ UNCHANGED notMonVars

NextMonitor ==
    \/ \E t \in Threads, success \in BOOLEAN : RecordExecution(t, success)
    \/ \E t \in Threads : LoadCounter(t)
    \/ \E t \in Threads : StoreCounter(t)

SpecMonitor == Init /\ [][NextMonitor]_vars

(***************************************************************************)
(* The platform drivers and what they leave behind                         *)
(* (orchestration/platforms.py): DockerExecutor and SlurmExecutor with     *)
(* their temporary script, SSHExecutor with its remote script,             *)
(* KubernetesExecutor with its ConfigMap and Job.  Every call of the file  *)
(* system, of the container engine or of the remote host can fail.         *)
(***************************************************************************)
MaxDriverCalls == 2

Drivers == {"docker", "slurm", "ssh", "kubernetes"}
Artifact(kind) == <<kind, dcalls>>

\* a driver's execute is entered; cleanup_remote is the SSH setting
\* (default True)
DriverExecute(platform, cleanup_remote) ==
    /\ dpc = "idle"
    /\ dcalls < MaxDriverCalls
    /\ platform # "ssh" => cleanup_remote
    /\ dcalls' = dcalls + 1
    /\ dplatform' = platform
    /\ dcleanup' = cleanup_remote
    /\ dpc' = CASE platform \in {"docker", "slurm"} -> "script"
                [] platform = "ssh" -> "transfer"
                [] platform = "kubernetes" -> "create_script"
    /\ doutcome' = NoneVal
    /\ UNCHANGED artifacts
    /\ UNCHANGED notDrvVars

\* DockerExecutor.execute, lines 87-89, and SlurmExecutor.execute, lines
\* 571-573: the temporary file is created with delete=False and written
\* before the try statement is entered
WriteScript(ok) ==
    /\ dpc = "script"
    /\ artifacts' = artifacts \cup {Artifact("script")}
    /\ IF ok
       THEN /\ dpc' = "run"
            /\ UNCHANGED doutcome
       ELSE /\ dpc' = "done"
            /\ doutcome' = "OSError"
    /\ UNCHANGED <<dcalls, dplatform, dcleanup>>
    /\ UNCHANGED notDrvVars

\* what the driver raises for an error of its backend: DockerExecutor turns
\* ContainerError into PlatformExecutionError, anything else passes
driver_error(platform, error) ==
    IF platform = "docker" /\ error = "ContainerError"
    THEN "PlatformExecutionError" ELSE error

\* DockerExecutor.execute, lines 91-115, SlurmExecutor.execute, lines
\* 575-585: the container or the job runs; the finally clause unlinks the
\* script whatever happened
unlink(S, a) == S \ {a}
RunWithScript(error) ==
    /\ dpc = "run"
    /\ artifacts' = unlink(artifacts, Artifact("script"))
    /\ doutcome' = IF error = NoneVal THEN "returned"
                   ELSE driver_error(dplatform, error)
    /\ dpc' = "done"
    /\ UNCHANGED <<dcalls, dplatform, dcleanup>>
    /\ UNCHANGED notDrvVars

\* SSHExecutor._execute_remote_script, lines 816-821: the script is
\* written on the remote host; a failure leaves what was written
TransferScript(ok) ==
    /\ dpc = "transfer"
    /\ artifacts' = artifacts \cup {Artifact("remote_script")}
    /\ dpc' = IF ok THEN "remote_run" ELSE "remote_failed"
    /\ UNCHANGED <<dcalls, dplatform, dcleanup, doutcome>>
    /\ UNCHANGED notDrvVars

\* _execute_remote_script, lines 823-842: the script runs (unless the
\* transfer failed); the finally clause sends "rm -f" when cleanup_remote
\* is set and ignores an exception of that command
RunRemote(error, rm_ok) ==
    /\ dpc \in {"remote_run", "remote_failed"}
    /\ dpc = "remote_failed" => error = "IOError"
    /\ artifacts' = IF dcleanup /\ rm_ok
                    THEN artifacts \ {Artifact("remote_script")}
                    ELSE artifacts
    /\ doutcome' = IF error = NoneVal THEN "returned" ELSE error
    /\ dpc' = "done"
    /\ UNCHANGED <<dcalls, dplatform, dcleanup>>
    /\ UNCHANGED notDrvVars

\* KubernetesExecutor.execute, line 212: _create_execution_script (lines
\* 393-401) calls super()._create_execution_script, which PlatformExecutor
\* does not define: AttributeError, before the ConfigMap and the Job of
\* lines 213-226 are created
CreateExecutionScript ==
    /\ dpc = "create_script"
    /\ doutcome' = "AttributeError"
    /\ dpc' = "done"
    /\ UNCHANGED <<dcalls, dplatform, dcleanup, artifacts>>
    /\ UNCHANGED notDrvVars

\* the caller has the output or the error
DriverDone ==
    /\ dpc = "done"
    /\ dpc' = "idle"
    /\ UNCHANGED <<dcalls, dplatform, dcleanup, artifacts, doutcome>>
    /\ UNCHANGED notDrvVars

BackendErrors == {NoneVal, "ContainerError", "PlatformExecutionError",
                  "IOError"}

NextDriver ==
    \/ \E platform \in Drivers, cleanup_remote \in BOOLEAN :
          DriverExecute(platform, cleanup_remote)
    \/ \E ok \in BOOLEAN : WriteScript(ok)
    \/ \E error \in BackendErrors : RunWithScript(error)
    \/ \E ok \in BOOLEAN : TransferScript(ok)
    \/ \E error \in BackendErrors, rm_ok \in BOOLEAN : RunRemote(error, rm_ok)
    \/ CreateExecutionScript
    \/ DriverDone

SpecDriver == Init /\ [][NextDriver]_vars

(***************************************************************************)
(* retry_with_backoff (orchestration/robust_utils.py, lines 379-414).      *)
(* Durations are counted in tenths of a second, so that the jitter         *)
(* random.uniform(0, delay * 0.1) of a whole number of seconds is a whole  *)
(* number of tenths.                                                       *)
(***************************************************************************)
MaxBackoffCalls == 2
MaxAttempts == 8
Second == 10
DefaultInitialDelay == 1 * Second
DefaultBackoffFactor == 2

\* the wrapper is entered: delay = initial_delay, the loop starts
RetryWithBackoff(attempts, initial_delay) ==
    /\ bpc = "idle"
    /\ bcalls < MaxBackoffCalls
    /\ bcalls' = bcalls + 1
    /\ max_attempts' = attempts
    /\ delay' = initial_delay
    /\ battempt' = 0
    /\ bsleep' = 0
    /\ boutcome' = NoneVal
    /\ bpc' = IF 0 < attempts THEN "call" ELSE "exhausted"
    /\ UNCHANGED notBoffVars

\* the values random.uniform(0, delay * 0.1) can take, in whole tenths
jitter(dl) == 0..(dl \div 10)

\* one turn of the loop: func returns, raises one of `exceptions`, or
\* raises something else; after a caught exception that is not the last
\* attempt the wrapper sleeps and multiplies the delay
BackoffAttempt(raised, jit) ==
    /\ bpc = "call"
    /\ jit \in jitter(delay)
    /\ raised = NoneVal => jit = 0
    /\ raised = "BaseException" => jit = 0
    /\ IF raised = NoneVal
       THEN /\ bpc' = "done"
            /\ boutcome' = "returned"
            /\ UNCHANGED <<battempt, delay, bsleep>>
       ELSE IF raised = "BaseException"
       THEN /\ bpc' = "done"
            /\ boutcome' = raised
            /\ UNCHANGED <<battempt, delay, bsleep>>
       ELSE /\ IF battempt < max_attempts - 1
               THEN /\ bsleep' = delay + jit
                    /\ delay' = delay * DefaultBackoffFactor
               ELSE /\ jit = 0
                    /\ UNCHANGED <<bsleep, delay>>
            /\ battempt' = battempt + 1
            /\ bpc' = IF battempt + 1 < max_attempts
                      THEN "call" ELSE "exhausted"
            /\ UNCHANGED boutcome
    /\ UNCHANGED <<bcalls, max_attempts>>
    /\ UNCHANGED notBoffVars

\* the loop is over without a return
BackoffExhausted ==
    /\ bpc = "exhausted"
    /\ boutcome' = "TwinGraphError"
    /\ bpc' = "done"
    /\ UNCHANGED <<bcalls, max_attempts, battempt, delay, bsleep>>
    /\ UNCHANGED notBoffVars

\* the caller has the result or the error
BackoffDone ==
    /\ bpc = "done"
    /\ bpc' = "idle"
    /\ UNCHANGED <<bcalls, max_attempts, battempt, delay, bsleep, boutcome>>
    /\ UNCHANGED notBoffVars

BackoffRaised == {NoneVal, "Exception", "BaseException"}
MaxJitter == (DefaultInitialDelay * 2 ^ MaxAttempts) \div 10

NextBackoff ==
    \/ \E attempts \in 0..MaxAttempts :
          RetryWithBackoff(attempts, DefaultInitialDelay)
    \/ /\ bpc = "call"
       /\ \E raised \in BackoffRaised, jit \in 0..MaxJitter :
             BackoffAttempt(raised, jit)
    \/ BackoffExhausted
    \/ BackoffDone

SpecBackoff == Init /\ [][NextBackoff]_vars

(***************************************************************************)
(* AsyncComponent (orchestration/modern_decorators.py, lines 74-234): the  *)
(* async wrapper with its in-memory cache.                                 *)
(***************************************************************************)
MaxAsyncCalls == 3

\* set_hash of orchestration_utils (lines 254-259): md5 of the joined
\* parent hashes and the current time
child_hash_of(parent_hash, at) == [parents |-> parent_hash, at |-> at]

\* a cache entry, and the value of a return: outputs and hash
Entry(outputs, hash, stamp) ==
    [outputs |-> outputs, hash |-> hash, stamp |-> stamp]

\* lines 89-91: parent_hash = kwargs.pop('parent_hash', []), a string
\* becomes a list of one
parent_hash_of(kw) ==
    IF "parent_hash" \in DOMAIN kw THEN kw["parent_hash"].items ELSE <<>>
pop_nothing(kw) == kw
pop_parent_hash(kw) == [k \in DOMAIN kw \ {"parent_hash"} |-> kw[k]]

\* _generate_cache_key, lines 170-179: the digest of the JSON text of the
\* function name, the positional and the keyword arguments, keys sorted
generate_cache_key(name, a, kw) == <<name, a, kw>>

\* _process_result, lines 203-215, for a result that is no mapping
async_process_result(r) == [result |-> r]

\* AsyncComponent.__init__, lines 77-82
AsyncComponentInit(enabled) ==
    /\ apc = "new"
    /\ cache_enabled' = enabled
    /\ cache' = EmptyDict
    /\ apc' = "idle"
    /\ UNCHANGED <<acalls, cache_before, akwargs, cache_key, child_hash,
                   output_dict, ainvoked, awritten, areturn, araised>>
    /\ UNCHANGED notAsyncVars

\* __call__, lines 84-111: the parent hash is taken out, the cache is
\* looked up, and on a miss the child hash and the attributes are prepared
AsyncCall(kw, at) ==
    /\ apc = "idle"
    /\ acalls < MaxAsyncCalls
    /\ LET kwargs_left == pop_parent_hash(kw)
           key == IF cache_enabled
                  THEN generate_cache_key("mul", <<>>, kwargs_left)
                  ELSE <<>>
       IN  /\ cache_key' = key
           /\ IF cache_enabled /\ key \in DOMAIN cache
              THEN /\ areturn' = cache[key]
                   /\ apc' = "returned"
                   /\ UNCHANGED child_hash
              ELSE /\ child_hash' = child_hash_of(parent_hash_of(kw), at)
                   /\ apc' = "invoke"
                   /\ areturn' = NoEntry
    /\ acalls' = acalls + 1
    /\ akwargs' = kw
    /\ cache_before' = cache
    /\ ainvoked' = 0
    /\ awritten' = {}
    /\ output_dict' = NoneVal
    /\ araised' = NoneVal
    /\ UNCHANGED <<cache_enabled, cache>>
    /\ UNCHANGED notAsyncVars

\* lines 113-131: the function returns r; the result is processed and, with
\* a cache key, stored in the cache
AsyncInvokeReturns(r) ==
    /\ apc = "invoke"
    /\ ainvoked' = ainvoked + 1
    /\ output_dict' = async_process_result(r)
    /\ cache' = IF cache_key # <<>> /\ cache_enabled
                THEN (cache_key :> Entry(output_dict', child_hash, "cached_at"))
                     @@ cache
                ELSE cache
    /\ apc' = "record"
    /\ UNCHANGED <<acalls, cache_enabled, cache_before, akwargs, cache_key,
                   child_hash, awritten, areturn, araised>>
    /\ UNCHANGED notAsyncVars

\* lines 113-118 and 142-146: the function raises; an Exception enters the
\* except clause, a CancelledError (a BaseException) passes it
AsyncInvokeRaises(e) ==
    /\ apc = "invoke"
    /\ ainvoked' = ainvoked + 1
    /\ araised' = e
    /\ apc' = IF e = "CancelledError" THEN "raised" ELSE "except"
    /\ UNCHANGED <<acalls, cache_enabled, cache, cache_before, akwargs,
                   cache_key, child_hash, output_dict, awritten, areturn>>
    /\ UNCHANGED notAsyncVars

\* lines 133-140 with _record_execution, lines 217-234: the vertex is
\* written and the call returns, or add_vertex_connection raises
AsyncRecord(ok) ==
    /\ apc = "record"
    /\ IF ok
       THEN /\ awritten' = awritten \cup {[hash |-> child_hash,
                                           output |-> output_dict]}
            /\ areturn' = Entry(output_dict, child_hash, "execution_time")
            /\ apc' = "returned"
            /\ UNCHANGED araised
       ELSE /\ araised' = "ConnectionError"
            /\ apc' = "except"
            /\ UNCHANGED <<awritten, areturn>>
    /\ UNCHANGED <<acalls, cache_enabled, cache, cache_before, akwargs,
                   cache_key, child_hash, output_dict, ainvoked>>
    /\ UNCHANGED notAsyncVars

\* lines 142-146: the except clause records the error and raises again; a
\* failure of that record is raised in its place
AsyncRecordError(ok) ==
    /\ apc = "except"
    /\ IF ok
       THEN /\ awritten' = awritten \cup {[hash |-> child_hash,
                                           output |-> [error |-> araised]]}
            /\ UNCHANGED araised
       ELSE /\ araised' = "ConnectionError"
            /\ UNCHANGED awritten
    /\ apc' = "raised"
    /\ UNCHANGED <<acalls, cache_enabled, cache, cache_before, akwargs,
                   cache_key, child_hash, output_dict, ainvoked, areturn>>
    /\ UNCHANGED notAsyncVars

\* the caller has the value or the exception
AsyncDone ==
    /\ apc \in {"returned", "raised"}
    /\ apc' = "idle"
    /\ UNCHANGED <<acalls, cache_enabled, cache, cache_before, akwargs,
                   cache_key, child_hash, output_dict, ainvoked, awritten,
                   areturn, araised>>
    /\ UNCHANGED notAsyncVars

\* a parent_hash is a string or a list of strings
ParentHashArguments ==
    {[kind |-> "str", items |-> <<"p1">>],
     [kind |-> "list", items |-> <<"p2">>]}
AsyncKwargs ==
    {[k \in {"x"} |-> x] : x \in 1..2}
    \cup {("parent_hash" :> p) @@ [k \in {"x"} |-> x] :
             x \in 1..2, p \in ParentHashArguments}
AsyncResults == {10, 20}
AsyncTimes == 1..2
AsyncErrors == {"ValueError", "CancelledError"}

NextAsync ==
    \/ \E enabled \in BOOLEAN : AsyncComponentInit(enabled)
    \/ apc = "idle" /\ \E kw \in AsyncKwargs, at \in AsyncTimes :
                          AsyncCall(kw, at)
    \/ \E r \in AsyncResults : AsyncInvokeReturns(r)
    \/ \E e \in AsyncErrors : AsyncInvokeRaises(e)
    \/ \E ok \in BOOLEAN : AsyncRecord(ok)
    \/ \E ok \in BOOLEAN : AsyncRecordError(ok)
    \/ AsyncDone

SpecAsync == Init /\ [][NextAsync]_vars

(***************************************************************************)
(* Properties of ComponentExecutor.execute.                                *)
(***************************************************************************)
Terminal == pc \in {"returned", "raised"}

\* the Component vertices written by the invocation in flight
Written == {v \in ComponentVertices : v.by = ncalls}

\* positions of a step in a log, and "every a comes before every b"
Pos(l, e) == {i \in DOMAIN l : l[i] = e}
Before(l, a, b) == \A i \in Pos(l, a), j \in Pos(l, b) : i < j
Occurs(l, e) == Pos(l, e) # {}

\* C1: when execute has returned normally, the store holds exactly one
\* Component vertex written by that call, its Hash is the handle's hash and
\* its Success is true.
C1_ReturnedHasOneSuccessVertex ==
    pc = "returned" =>
        /\ Cardinality(Written) = 1
        /\ \A v \in Written :
              /\ "Hash" \in DOMAIN v.props
              /\ v.props.Hash = handle.hash
              /\ v.props.Success = TRUE

\* C2: when execute has raised, whichever step failed, the store holds
\* exactly one Component vertex written by that call, with Success false and
\* an Error property (it is there when the error reaches the caller).
C2_RaisedHasOneFailureVertex ==
    pc = "raised" =>
        /\ Cardinality(Written) = 1
        /\ \A v \in Written :
              /\ v.props.Success = FALSE
              /\ "Error" \in DOMAIN v.props

\* C3: when the graph write of a successful function's record fails, execute
\* returns the function's handle, raises nothing and no vertex is created.
C3_LineageLossTolerated ==
    (Terminal /\ succeeded /\ recs # <<>> /\ recs[1].success /\ recs[1].graph)
        => /\ pc = "returned"
           /\ handle = process_result(result, context.execution_id,
                                      metadata.name)
           /\ Written = {}

\* C4: between invocations, for every recorded invocation c and every parent
\* id p supplied to it whose vertex is recorded, the store holds exactly one
\* DEPENDS_ON edge from p's vertex to c's vertex.
C4_OneEdgePerRecordedParent ==
    pc = "idle" =>
        \A c \in ComponentVertices :
            \A i \in DOMAIN c.props.ParentHashes :
                \A pv \in ComponentVertices :
                    pv.props.ExecutionID = c.props.ParentHashes[i]
                        => CopiesIn(<<pv.id, c.id>>, edges) = 1

\* C5: with auto_retry and max_retries = N, a function that raised on its
\* first k < N attempts and returned on attempt k+1 makes execute return:
\* k+1 invocations, k backoff sleeps, exactly one vertex.
C5_RetryThenSuccessReturns ==
    (Terminal /\ metadata.auto_retry /\ succeeded
              /\ Len(failures) < metadata.max_retries)
        => /\ pc = "returned"
           /\ invocations = Len(failures) + 1
           /\ Len(sleeps) = Len(failures)
           /\ Cardinality(Written) = 1

\* the kinds the retry policy is specified not to retry
NonRetryableKinds == {"ValidationError", "ConfigurationError", "MemoryError",
                      "KeyboardInterrupt"}

C7_ExhaustedRetriesRaiseWrapped ==
    (Terminal /\ invocations >= 1 /\ ~succeeded
              /\ \A i \in DOMAIN failures : failures[i].type = "NetworkError")
        => /\ invocations = retry_range(metadata)
           /\ pc = "raised"
           /\ exc.type = "ComponentExecutionError"
           /\ exc.cause = CauseOf(failures[Len(failures)])
           /\ exc.name = metadata.name
           /\ \E v \in Written : v.props.Success = FALSE

PTerminal == ppc \in {"returned", "raised"}

\* the Pipeline vertices of one Type written by the execution in flight
PWritten(type) ==
    {v \in PipelineVertices : v.by = npipes /\ v.props.Type = type}

FunctionEnded ==
    Occurs(plog, "function_returned") \/ Occurs(plog, "function_raised")

EndWrittenInOrder ==
    /\ Occurs(plog, "end")
    /\ Before(plog, "function_returned", "end")
    /\ Before(plog, "function_raised", "end")
    /\ Before(plog, "end", "return")
    /\ Before(plog, "end", "raise")
    /\ \E v \in PWritten("PipelineEnd") : v.props.PipelineID = pipeline_id

StartWrittenBeforeInvoke ==
    /\ Occurs(plog, "start")
    /\ Before(plog, "start", "invoke")
    /\ \E v \in PWritten("PipelineStart") : v.props.PipelineID = pipeline_id

C10_FunctionReturnRecordedAndPropagated ==
    (PTerminal /\ Occurs(plog, "function_returned"))
        => /\ ppc = "returned"
           /\ pret = presult
           /\ Cardinality(PWritten("PipelineStart")) = 1
           /\ Cardinality(PWritten("PipelineEnd")) = 1
           /\ \A v \in PWritten("PipelineEnd") : v.props.Success = TRUE

\* C11: when the composition function has raised, execute has written a
\* PipelineEnd vertex with Success false and the error message, and raises
\* PipelineExecutionError whose cause is the function's exception and whose
\* details carry the pipeline name.
C11_FunctionRaiseRecordedAndWrapped ==
    (PTerminal /\ Occurs(plog, "function_raised"))
        => /\ ppc = "raised"
           /\ pexc.type = "PipelineExecutionError"
           /\ pexc.cause \in {<<"RuntimeError", 1>>, <<"KeyboardInterrupt", 1>>}
           /\ pexc.name = pconfig.name
           /\ \E v \in PWritten("PipelineEnd") :
                 /\ v.props.Success = FALSE
                 /\ "Error" \in DOMAIN v.props

\* the calls of GraphManager.clear_graph made by the execution in flight
ClearCalls == Pos(plog, "clear") \cup Pos(plog, "clear_failed")

\* C12: with clear_graph true, execute calls the store's clear exactly
\* once, before the PipelineStart write and before the composition function
\* runs; with clear_graph false it never calls it.
C12_ClearOnceBeforeStart ==
    ppc # "idle" =>
        IF pconfig.clear_graph
        THEN /\ ClearCalls = {1}
             /\ \A e \in {"start", "start_failed", "invoke"} :
                   /\ Before(plog, "clear", e)
                   /\ Before(plog, "clear_failed", e)
        ELSE ClearCalls = {}

C12_Witness ==
    /\ ppc = "returned"
    /\ pconfig.clear_graph
    /\ plog = <<"clear", "start", "invoke", "function_returned", "end",
                "return">>

(***************************************************************************)
(* Properties of WorkflowEngine.execute.                                   *)
(***************************************************************************)
\* the ids one edge away from the ids of S, and the ids reachable from S
\* along at most n further edges
Successors(wf, S) ==
    {wf.edges[i].target : i \in {k \in DOMAIN wf.edges : wf.edges[k].source \in S}}
RECURSIVE ReachableWithin(_, _, _)
ReachableWithin(wf, S, n) ==
    IF n = 0 THEN S
    ELSE ReachableWithin(wf, S \cup Successors(wf, S), n - 1)
Reachable(wf, u) == ReachableWithin(wf, Successors(wf, {u}), Len(wf.edges))
HasCycle(wf) == \E u \in WNodeIds \cup {GhostId} : u \in Reachable(wf, u)

Sorted == wpc \in {"loop", "finished"}

\* C13: a workflow whose edges contain a directed cycle is rejected before
\* any node executes (the execution fails, no node has started); an acyclic
\* workflow is accepted.
C13_CyclicWorkflowRejected ==
    Sorted =>
        IF HasCycle(workflow)
        THEN /\ wlog = <<>>
             /\ wpc = "finished"
             /\ execution.status = "failed"
        ELSE wlog = <<>> => execution.status # "failed"

\* C14: for an acyclic workflow (node ids are unique) the execution order
\* holds every node exactly once and every edge's source before its target;
\* a node starts at most once and only after the sources of its edges have
\* finished; a completed execution has run every node.
C14_TopologicalOrderRespected ==
    (Sorted /\ ~HasCycle(workflow)) =>
        /\ \A n \in NodeIds(workflow) :
              /\ Cardinality(Pos(execution_order, n)) = 1
              /\ Cardinality(Pos(wlog, <<"start", n>>)) <= 1
              /\ execution.status = "completed" =>
                    /\ Occurs(wlog, <<"start", n>>)
                    /\ Before(wlog, <<"start", n>>, <<"end", n>>)
                    /\ Occurs(wlog, <<"end", n>>)
        /\ \A k \in DOMAIN workflow.edges :
              LET u == workflow.edges[k].source
                  v == workflow.edges[k].target
              IN  (u \in NodeIds(workflow) /\ v \in NodeIds(workflow)) =>
                      /\ Before(execution_order, u, v)
                      /\ \A j \in Pos(wlog, <<"start", v>>) :
                            \E i \in Pos(wlog, <<"end", u>>) : i < j

C14_Witness ==
    /\ wpc = "finished"
    /\ execution.status = "completed"
    /\ ~HasCycle(workflow)
    /\ [i \in DOMAIN workflow.nodes |-> workflow.nodes[i].id] = <<"C", "B", "A">>
    /\ {<<workflow.edges[k].source, workflow.edges[k].target>> :
           k \in DOMAIN workflow.edges} = {<<"A", "B">>, <<"B", "C">>}
    /\ execution_order = <<"A", "B", "C">>
    /\ Len(wlog) = 9

\* the source of an edge had a recorded result when node n started
RecordedBefore(source, n) ==
    \E i \in Pos(wlog, <<"end", source>>), j \in Pos(wlog, <<"start", n>>) : i < j

\* the inputs as the wiring rule states them: an edge with both ports
\* contributes the source's value at source_port under target_port, an edge
\* without ports the entire source mapping
RECURSIVE port_inputs(_, _, _, _)
port_inputs(node_id, edgs, results, n) ==
    IF n = 0 THEN EmptyDict
    ELSE LET inputs == port_inputs(node_id, edgs, results, n - 1)
             edge == edgs[n]
             source_result == dict_get(results, edge.source, EmptyDict)
         IN  IF edge.target # node_id THEN inputs
             ELSE IF edge.target_handle # NoneVal /\ edge.source_handle # NoneVal
             THEN [k \in {edge.target_handle} |->
                      dict_get(source_result, edge.source_handle, NoneVal)]
                  @@ inputs
             ELSE IF edge.target_handle = NoneVal /\ edge.source_handle = NoneVal
             THEN source_result @@ inputs
             ELSE inputs

\* C15: a node whose inbound edges all have a recorded source gets the
\* inputs of the wiring rule (value at source_port under target_port, the
\* entire mapping only if both ports are absent); a node with an inbound
\* edge whose source has no recorded result fails instead of running.
C15_InputsWiredOrNodeFails ==
    \A n \in DOMAIN winputs :
        IF \E k \in DOMAIN workflow.edges :
              /\ workflow.edges[k].target = n
              /\ ~RecordedBefore(workflow.edges[k].source, n)
        THEN /\ ~Occurs(wlog, <<"run", n>>)
             /\ wcontext.nodes[n].status = "failed"
        ELSE winputs[n] = port_inputs(n, workflow.edges, wcontext.results,
                                      Len(workflow.edges))

\* C16: after a node has failed, no node reachable from it along edges is
\* started or run in that execution.
C16_NothingDownstreamOfFailure ==
    \A i \in DOMAIN wlog :
        wlog[i][1] = "fail" =>
            \A j \in DOMAIN wlog :
                (j > i /\ wlog[j][1] \in {"start", "run", "end"})
                    => wlog[j][2] \notin Reachable(workflow, wlog[i][2])

C16_Witness ==
    /\ wpc = "finished"
    /\ Occurs(wlog, <<"fail", "B">>)
    /\ "C" \in NodeIds(workflow)
    /\ "C" \in Reachable(workflow, "B")
    /\ ~Occurs(wlog, <<"start", "C">>)
    /\ Pos(execution_order, "B") # {}
    /\ Before(execution_order, "B", "C")

\* C17: whenever a node of the execution has failed, the status of the
\* execution is failed, both in the engine's execution context and in the
\* API's execution table.
C17_NodeFailureFailsExecution ==
    \A n \in DOMAIN wcontext.nodes :
        wcontext.nodes[n].status = "failed"
            => /\ wcontext.status = "failed"
               /\ execution.status = "failed"

(***************************************************************************)
(* Properties of the execution ids and of generate_hash.                   *)
(***************************************************************************)
\* dict equality: the same items, whatever the insertion order
SameDict(x, y) == {x[i] : i \in DOMAIN x} = {y[i] : i \in DOMAIN y}
\* one list is a permutation of the other
IsPermutation(x, y) ==
    /\ Len(x) = Len(y)
    /\ \A e \in HashParents :
          Cardinality(Pos(x, e)) = Cardinality(Pos(y, e))

\* C18: two invocations that differ in an input value, in their parent ids
\* or in their timestamp have different execution ids.
C18_DifferentInvocationsDifferentIds ==
    \A i, j \in DOMAIN hcalls :
        (/\ hcalls[i].fn = "execution_id"
         /\ hcalls[j].fn = "execution_id"
         /\ \/ ~SameDict(hcalls[i].inputs, hcalls[j].inputs)
            \/ hcalls[i].parents # hcalls[j].parents
            \/ hcalls[i].timestamp # hcalls[j].timestamp)
            => hcalls[i].value # hcalls[j].value

\* C19: for a fixed timestamp, two calls of generate_hash with the same
\* function name, equal inputs and parent lists that are permutations of each
\* other return the same hash.
C19_GenerateHashDeterministic ==
    \A i, j \in DOMAIN hcalls :
        (/\ hcalls[i].fn = "generate_hash"
         /\ hcalls[j].fn = "generate_hash"
         /\ hcalls[i].timestamp = hcalls[j].timestamp
         /\ hcalls[i].name = hcalls[j].name
         /\ SameDict(hcalls[i].inputs, hcalls[j].inputs)
         /\ IsPermutation(hcalls[i].parents, hcalls[j].parents))
            => hcalls[i].value = hcalls[j].value

C19_Witness ==
    /\ Len(hcalls) = 2
    /\ hcalls[1].fn = "generate_hash"
    /\ hcalls[2].fn = "generate_hash"
    /\ hcalls[1].parents = <<"p1", "p2">>
    /\ hcalls[2].parents = <<"p2", "p1">>
    /\ hcalls[1].inputs = <<<<"a", 1>>, <<"b", 1>>>>
    /\ hcalls[2].inputs = <<<<"b", 1>>, <<"a", 1>>>>
    /\ hcalls[1].name = hcalls[2].name
    /\ hcalls[1].timestamp = hcalls[2].timestamp
    /\ hcalls[1].value = hcalls[2].value

(***************************************************************************)
(* Properties of TwinGraphSerializer.                                      *)
(***************************************************************************)
\* C20: for every value v built from the supported types, nested ones
\* included, deserialize(serialize(v)) equals v.
C20_RoundTrip ==
    spc = "deserialized" => sdecoded = svalue

(***************************************************************************)
(* Properties of resolve_graph_config.                                     *)
(***************************************************************************)
\* the value the precedence rule gives a key: decorator, else environment,
\* else built-in default
ByPrecedence(key, decorator_config, env) ==
    IF key \in DOMAIN decorator_config THEN decorator_config[key]
    ELSE IF key = "endpoint" /\ "graph_endpoint" \in DOMAIN decorator_config
    THEN decorator_config["graph_endpoint"]
    ELSE IF EnvVar(key) \in DOMAIN env
    THEN IF key = "endpoint" THEN env[EnvVar(key)]
         ELSE number_of_str(env[EnvVar(key)])
    ELSE GraphConfig[key]

\* C21: for each key independently, resolve_graph_config yields the
\* decorator value if the decorator config sets the key, otherwise the
\* environment value if its variable is set, otherwise the built-in default.
C21_PrecedencePerKey ==
    \A i \in DOMAIN resolved :
        \A key \in ConfigKeys :
            resolved[i].config[key] =
                ByPrecedence(key, resolved[i].decorator_config, resolved[i].env)

(***************************************************************************)
(* Properties of the platform drivers under the retry loop.                *)
(***************************************************************************)
\* the invocation was refused by its driver for a missing mandatory key
RefusedByDriver ==
    /\ metadata.platform \in RemotePlatforms
    /\ ~metadata.configured
    /\ failures # <<>>

\* C22: when the mandatory keys of the selected platform are missing, the
\* invocation fails with a configuration error before anything is
\* dispatched, after a single attempt and without any backoff sleep.
C22_MissingKeysFailAtOnce ==
    RefusedByDriver =>
        /\ invocations = 0
        /\ Len(failures) = 1
        /\ sleeps = <<>>

(***************************************************************************)
(* Properties of the reserved keyword parent_hash.                         *)
(***************************************************************************)
\* the list the caller's parent_hash stands for: a string is one parent, a
\* list is itself, no parent_hash is no parent
AsList(kw) ==
    IF "parent_hash" \notin DOMAIN kw THEN <<>>
    ELSE IF kw.parent_hash.isstr THEN <<kw.parent_hash.v[1]>>
    ELSE kw.parent_hash.v

\* C23: in every invocation the reserved keyword parent_hash is absent from
\* the arguments handed to the function or the driver, and the parents
\* recorded are a list: a string becomes a one-element list, a list is kept,
\* an absent value becomes the empty list.
C23_ParentHashStrippedAndListed ==
    pc # "idle" =>
        /\ "parent_hash" \notin DOMAIN kwargs
        /\ "parent_hash" \notin passed
        /\ context.parent_hashes = AsList(given)
        /\ DOMAIN context.parent_hashes = 1..Len(context.parent_hashes)

\* a string was given, the function was invoked and the invocation recorded
C23_Witness ==
    /\ "parent_hash" \in DOMAIN given
    /\ given.parent_hash.isstr
    /\ invocations > 0
    /\ recs # <<>>
    /\ Len(context.parent_hashes) = 1

(***************************************************************************)
(* Properties of the GraphManager operations.                              *)
(***************************************************************************)
\* C24: every public GraphManager operation that fails raises
\* GraphOperationError naming the operation, except that a connection
\* failure surfaces as GraphConnectionError; none reports a failure by
\* returning an empty or null result.
C24_FailuresRaise ==
    \A i \in DOMAIN gcalls :
        gcalls[i].failed =>
            /\ gcalls[i].outcome.raised =
                   IF gcalls[i].fault = "connection"
                   THEN "GraphConnectionError" ELSE "GraphOperationError"
            /\ gcalls[i].outcome.raised = "GraphOperationError" =>
                   gcalls[i].outcome.operation # NoneVal

(***************************************************************************)
(* Properties of the connection pools.                                     *)
(***************************************************************************)
\* C25: after any sequence of invocations against one endpoint at most one
\* connection pool to it is open; invocations borrow it and open none of
\* their own.
C25_OnePoolPerEndpoint == Cardinality(pools) <= 1

(***************************************************************************)
(* Properties of cancellation.                                             *)
(***************************************************************************)
\* C26: once the cancellation of an execution has been requested no further
\* node execution (and no retry attempt or graph write) is started for it.
C26_NothingStartsAfterCancel ==
    \A i \in DOMAIN wlog : \A j \in DOMAIN wlog :
        wlog[i][1] = "cancel" /\ j > i => wlog[j][1] # "start"

(***************************************************************************)
(* Properties of the distributed mode of PipelineExecutor.execute.         *)
(***************************************************************************)
\* C27: a pipeline configured for distributed execution does not clear the
\* graph even if clear_graph is true; the clear is honoured only in
\* sequential mode.
C27_NoClearWhenDistributed ==
    ppc # "idle" /\ pconfig.celery_enabled => ClearCalls = {}

(***************************************************************************)
(* Properties of ExecutionMonitor.record_execution.                        *)
(***************************************************************************)
\* C28: when record_execution is called concurrently no update is lost:
\* once all calls have finished, total_executions is the number of calls
\* and is successful_executions + failed_executions.
C28_NoLostUpdate ==
    (\A t \in Threads : mpc[t] = "idle") =>
        /\ metrics.total_executions = mcalls
        /\ metrics.total_executions =
               metrics.successful_executions + metrics.failed_executions

(***************************************************************************)
(* Properties of GraphManager.add_component_execution.                     *)
(***************************************************************************)
\* the step is a call of add_component_execution
IsAddComponentExecution ==
    /\ Len(gcalls') = Len(gcalls) + 1
    /\ gcalls'[Len(gcalls')].operation = "add_component_execution"
AddedAttributes == gcalls'[Len(gcalls')].arguments[1]
AddedParents == gcalls'[Len(gcalls')].arguments[2]

\* C29: add_component_execution called with attributes that miss any of
\* Name, ExecutionID or Hash raises and leaves the store unchanged: no
\* vertex and no edge is written.
C29_MissingAttributesRejected ==
    [][IsAddComponentExecution
       /\ ~({"Name", "ExecutionID", "Hash"} \subseteq DOMAIN AddedAttributes)
       => /\ gcalls'[Len(gcalls')].outcome.raised = "GraphOperationError"
          /\ vertices' = vertices
          /\ edges' = edges]_vars

\* a call without Hash was refused while the store held a vertex
C29_Witness ==
    /\ Len(gcalls) = 2
    /\ gcalls[2].operation = "add_component_execution"
    /\ "Hash" \notin DOMAIN gcalls[2].arguments[1]
    /\ gcalls[2].outcome.cause = "ValueError"
    /\ Cardinality(vertices) = 1

\* C30: add_component_execution is all-or-nothing: if it raises after the
\* vertex write, for example while adding one of the parent edges, the
\* store holds neither the new vertex nor any of its edges.
C30_AllOrNothing ==
    [][IsAddComponentExecution
       /\ gcalls'[Len(gcalls')].outcome.raised # NoneVal
       => /\ vertices' = vertices
          /\ edges' = edges]_vars

(***************************************************************************)
(* Properties of the recorded node statuses.                               *)
(***************************************************************************)
\* the status recorded for a node: in the execution table of the API, in
\* the execution context of the engine
TableStatus(id) == execution.nodes[id]
ContextStatus(id) ==
    IF id \in DOMAIN wcontext.nodes THEN wcontext.nodes[id].status
    ELSE "pending"

\* C31: the recorded status of every node only follows pending -> running
\* -> completed or failed, completed and failed are never left, and when
\* the execution completes every node's recorded status is completed.
C31_NodeStatusLifecycle ==
    wpc # "idle" =>
        \A id \in NodeIds(workflow) :
            /\ TableStatus(id) \in {"pending", "running", "completed", "failed"}
            /\ ContextStatus(id) \in {"pending", "running", "completed",
                                     "failed"}
            /\ execution.status = "completed" =>
                   /\ TableStatus(id) = "completed"
                   /\ ContextStatus(id) = "completed"

(***************************************************************************)
(* Properties of the platform drivers' artifacts.                          *)
(***************************************************************************)
\* C32: whenever a driver's execute returns or raises, every artifact it
\* created for the invocation (temporary script, ConfigMap, Job) has been
\* removed, also when the job creation, the job, the wait or one of the
\* deletions fails.
C32_ArtifactsRemovedOnExit ==
    dpc = "done" => \A a \in artifacts : a[2] # dcalls

(***************************************************************************)
(* C33: every sleep between two retry attempts lasts at most 30 seconds,   *)
(* whatever the attempt index and the number of attempts, in               *)
(* ComponentExecutor._execute_with_retry and in retry_with_backoff.        *)
(***************************************************************************)
C33_SleepsAtMostThirtySeconds ==
    /\ \A i \in DOMAIN sleeps : sleeps[i] <= MaxBackoff
    /\ bsleep <= MaxBackoff * Second

(***************************************************************************)
(* C34: deserialize of a mapping whose __type__ is none of the known       *)
(* envelope types returns that mapping unchanged, nested values included.  *)
(***************************************************************************)
C34_UnknownTypeUnchanged ==
    (/\ spc = "decoded"
     /\ py_getitem(sencoded, "__type__").atom[1] \notin KnownTypes)
        => sdecoded = sencoded

(***************************************************************************)
(* C35: an execute that returns normally and has recorded Success = true   *)
(* has invoked the function (or the platform driver) at least once,        *)
(* whatever max_retries is, zero included.                                 *)
(***************************************************************************)
C35_SuccessMeansInvoked ==
    (/\ pc = "returned"
     /\ \E v \in Written : v.props.Success = TRUE)
        => invocations >= 1

(***************************************************************************)
(* C36: a PipelineEnd vertex exists only for a PipelineID whose            *)
(* PipelineStart vertex was written, and no PipelineID has two PipelineEnd *)
(* vertices, whichever graph writes fail.                                  *)
(***************************************************************************)
PipelineOfType(type) == {v \in PipelineVertices : v.props.Type = type}

C36_EndOnlyAfterStartAndOnce ==
    \A e \in PipelineOfType("PipelineEnd") :
        /\ \E s \in PipelineOfType("PipelineStart") :
              s.props.PipelineID = e.props.PipelineID
        /\ \A f \in PipelineOfType("PipelineEnd") :
              f.props.PipelineID = e.props.PipelineID => f = e

(***************************************************************************)
(* C37: once the status of an execution in the API's table is completed,   *)
(* failed or cancelled, no step changes it: a cancelled execution stays    *)
(* cancelled however cancel_execution and run_workflow_async interleave.   *)
(***************************************************************************)
TerminalStatuses == {"completed", "failed", "cancelled"}

C37_TerminalStatusIsFinal ==
    [][execution.status \in TerminalStatuses
          => execution'.status = execution.status]_vars

(***************************************************************************)
(* C38: a call of an AsyncComponent that raises leaves the cache as it     *)
(* was, also when the record fails after the function succeeded; the       *)
(* cache holds results of calls that returned normally only.               *)
(***************************************************************************)
C38_RaisingCallLeavesCache ==
    apc = "raised" => cache = cache_before

(***************************************************************************)
(* C39: a call of an AsyncComponent whose inputs, the parent_hash aside,   *)
(* are in the cache returns the stored outputs and the stored hash of the  *)
(* original execution; it does not invoke the function and writes no       *)
(* vertex, also when its parent_hash differs from the original one.        *)
(***************************************************************************)
InputsOf(kw) == [k \in DOMAIN kw \ {"parent_hash"} |-> kw[k]]
CachedInputs == generate_cache_key("mul", <<>>, InputsOf(akwargs))
IsCacheHit ==
    /\ apc \in {"invoke", "record", "except", "returned", "raised"}
    /\ cache_enabled
    /\ CachedInputs \in DOMAIN cache_before

ConnectFailed(c) ==
    /\ c.fault = "connection"
    /\ c.operation = "add_component_execution"
          => required_attributes \subseteq DOMAIN c.arguments[1]

C40_FailedConnectKeepsNoSource ==
    (gcalls # <<>> /\ ConnectFailed(gcalls[Len(gcalls)]))
        => traversal_source = NoneVal

====
